---- MODULE Spec2Model ----
(***************************************************************************)
(* A model of panifex's recipe resolution engine (recipes.py), its         *)
(* staleness rule (recipes.py, artifacts.py, files.py), its shell          *)
(* execution subsystem (shell.py) and its error aggregation (errors.py,    *)
(* poly.py, build.py).                                                     *)
(*                                                                         *)
(* asyncio runs one task at a time until the task suspends at an await     *)
(* that really yields, so every action below is one such run segment of    *)
(* one task.  Work done outside the event loop (a subprocess writing its   *)
(* output file, exiting) is a separate action.                             *)
(***************************************************************************)
EXTENDS Integers, Sequences, FiniteSets, TLC

\* ------------------------------------------------------------------ bounds
NumRecipes == 4
MaxTime == 2
NumShells == 2
LimiterSize == 1
MaxMakes == 3
MaxBranches == 3
\* the lines a subprocess writes to each of its streams, at most
MaxLines == 2
\* the largest return code handed to a ShellResult
MaxCode == 2
\* Artifact objects constructed, arguments of one PolyArtifact, file paths.
MaxObjects == 4
MaxArgs == 2
NumPaths == 2
\* Recipes a shell recipe can declare as its input; runs of the build.
NumInputs == 3
MaxRuns == 2
\* Paths of the file system tree that clean works on.
NumNodes == 5

\* datetime.timedelta.max, the age of an artifact that has none.
TimedeltaMax == 999999999

Recipes == 1..NumRecipes
NoTask == 0

Shells == 1..NumShells
\* ShellResult._returncode before it is set.
None == -1
\* The return codes a subprocess ends with.
ExitCodes == {0, 1}
\* ShellRecipe.__init__'s default success_codes.
SuccessCodes == {0}

\* The recipe graphs resolved: recipe 1 is the root, G[r] lists the recipes
\* passed as r's input (recipes beyond Len(G) have no dependencies).
Graphs ==
    { <<{2, 3}, {4}, {4}, {}>>,      \* diamond
      <<{2, 3}, {}, {2}, {}>>,       \* triangle: 2 is reached directly and through 3
      <<{2, 3}, {}, {4}, {2}>>,      \* 2 is reached directly and through 3, 4
      <<{2, 3, 4}, {}, {}, {}>>,     \* fan-out
      <<{2}, {3}, {4}, {}>>,         \* chain
      <<{}, {}, {}, {}>> }           \* a single recipe

GraphDeps(g) == [r \in Recipes |-> IF r <= Len(g) THEN g[r] ELSE {}]

VARIABLES
    \* -- the recipe graph and the file system
    deps,        \* Recipe._deps: recipe -> set of recipes
    kind,        \* recipe -> "file" (FileArtifact output) or "null" (NullArtifact)
    debug,       \* Config.debug
    now,         \* the wall clock, datetime.now()
    exists,      \* path.exists() of each recipe's output file
    mtime,       \* st_mtime of each recipe's output file
    \* -- Recipe.resolve
    lock,        \* Recipe._lock: recipe -> holding task, or NoTask
    lockq,       \* Recipe._lock's FIFO of waiting tasks
    tasks,       \* the asyncio tasks running Recipe.resolve, by task id
    makeCount,   \* recipe -> number of times its make() has been invoked
    \* -- a caller reading Recipe.is_done
    probe,       \* the last is_done read: [recipe, skew, done], recipe 0 when none
    \* -- ShellRecipe.make and InteractiveShellRecipe.make
    built,       \* shell recipe -> its constructor: "none" | "built" | "refused"
    interactive, \* shell recipe -> it is an InteractiveShellRecipe
    toStdin,     \* shell recipe -> a to_stdin payload was configured
    readsStdin,  \* shell recipe -> its command reads standard input to end-of-file
    stdin,       \* shell recipe -> proc.stdin of its subprocess: "none" | "open" | "closed"
    limiter,     \* ShellRecipe._limiter's value: the free slots
    spc,         \* shell recipe -> where its make() is
    cur,         \* shell recipe -> the subprocess of the running make()
    orphans,     \* live subprocesses whose make() has already raised
    returncode,  \* shell recipe -> ShellResult._returncode
    exitcode,    \* shell recipe -> proc.returncode of its exited subprocess
    makes,       \* shell recipe -> calls of make() so far
    mres,        \* shell recipe -> how its last make() ended
    merr,        \* shell recipe -> the exception its last make() raised
    blocked,     \* the shell recipe whose subprocess.call blocks the loop
    acquired,    \* shell recipe -> _limiter.acquire() calls that returned
    released,    \* shell recipe -> _limiter.release() calls
    \* -- an aggregated fan-out
    fanKind,     \* which fan-out: "resolve" | "clean" | "deep_resolve"
    branches,    \* the gathered branch tasks, in branch order
    fpc,         \* the fan-out's caller: "idle" | "gather" | "done"
    fres,        \* what AggregateError.aggregate gave the caller
    \* -- AsyncOutputCollector.collect on one subprocess
    produced,    \* stream -> the lines the subprocess has written to it
    eof,         \* stream -> the subprocess has closed it
    nread,       \* stream -> lines its StreamReader has handed out
    rtask,       \* stream -> its readline task: "none" | "pending" | "done"
    rres,        \* stream -> the result of its finished readline task
    sink,        \* InMemoryOutputSink._lines
    cpc,         \* collect(): "idle" | "waiting" | "done" | "raised"
    \* -- a caller using ShellResult.returncode
    rop,         \* the last use: [op, obj, arg, before, raised, value]
    \* artifacts.py, files.py: the artifact objects, in order of construction;
    \* an object's identity is its position
    heap,        \* Seq of [type, path, args, artifacts]
    \* shell.py, recipes.py: the {input} parameter of one shell recipe
    declared,    \* its input=[...] recipes, in declaration order
    layout,      \* this process's iteration order of a set of their outputs
    inputParam,  \* the paths {input} was replaced by
    catOut,      \* what `cat {input}` wrote: the words, in order
    ipc,         \* "new" | "interpolated" | "made"
    runs,        \* processes started so far
    \* recipes.py: purge
    ptasks,      \* the purge() calls: Seq of [recipe, parent, pc, err]
    unlinks,     \* recipe -> times its output was removed
    exists0,     \* recipe -> its output existed when purge was called
    \* recipes.py, files.py, artifacts.py: clean
    fsys,        \* path -> "absent" | "file" | "dir"
    cop,         \* the last clean: [op, target, before, err]
    bake,        \* the invocation: [entry, requested, pc, status, exit, err]
    dig,         \* the last digest call: [fn, arg, out, err, after]
    lim,         \* recipe -> its make() and the limiter: [st, n, rc]
    fr,          \* a FunctionalRecipe: its arguments, dependencies and call
    cfg,         \* BuildEngine._resolve_build: the parsed config and the resources chosen
    rcache,      \* resource name -> the request that cached its value, or 0
    rlock,       \* resource name -> the request holding _cache_locks[name], or 0
    rlockq,      \* resource name -> the requests waiting for its lock, in order
    reqs,        \* the _resolve_resource calls of this invocation
    fac          \* a shell recipe made with a set of success codes, and its run

fsVars == <<deps, kind, debug, now, exists, mtime>>
resolveVars == <<lock, lockq, tasks, makeCount>>
shellVars == <<built, interactive, toStdin, readsStdin, stdin, limiter, spc, cur, orphans, returncode,
               exitcode, makes, mres, merr, blocked, acquired, released>>
fanVars == <<fanKind, branches, fpc, fres>>
collectVars == <<produced, eof, nread, rtask, rres, sink, cpc>>
\* The parts of the program modelled on their own.
resultVars == <<rop>>
polyVars == <<heap>>
inputVars == <<declared, layout, inputParam, catOut, ipc, runs>>
purgeVars == <<ptasks, unlinks, exists0>>
cleanVars == <<fsys, cop>>
bakeVars == <<bake>>
paramVars == <<dig>>
liveVars == <<lim>>
funcVars == <<fr>>
buildVars == <<cfg, rcache, rlock, rlockq, reqs>>
facVars == <<fac>>
unitVars ==
    <<collectVars, resultVars, polyVars, inputVars, purgeVars, cleanVars,
      bakeVars,
      paramVars,
      liveVars,
      funcVars,
      buildVars,
      facVars>>
vars == <<fsVars, resolveVars, probe, shellVars, fanVars, unitVars>>

\* What the resolution engine leaves alone.
notEngine == <<probe, shellVars, fanVars, unitVars>>
\* What reading is_done and the file system events leave alone.
notStale == <<resolveVars, shellVars, fanVars, unitVars>>
\* What a shell recipe's make leaves alone.
notShell == <<fsVars, resolveVars, probe, fanVars, unitVars>>
\* What an aggregated fan-out leaves alone.
notFan == <<fsVars, resolveVars, probe, shellVars, unitVars>>

\* The two pipes AsyncOutputCollector reads.
Streams == {"stdout", "stderr"}
\* What a readline task can give: a line (its number in its stream), the
\* empty bytes of end-of-file, or the ValueError of a line beyond the
\* StreamReader's limit.
NoLine == [kind |-> "eof", n |-> 0]

\* An exception as far as its type and what its message names go.
NoError == [type |-> "none", code |-> None, command |-> FALSE]

\* ShellResult.returncode has not been used.
NoOp == [op |-> "none", obj |-> 0, arg |-> None, before |-> None,
         raised |-> FALSE, value |-> None]

NoProbe == [recipe |-> 0, skew |-> 0, done |-> FALSE]
NoResult == [raised |-> FALSE, errors |-> <<>>, result |-> <<>>]

\* No shell recipe has been constructed.
ShellIdle ==
    /\ built = [s \in Shells |-> "none"]
    /\ interactive = [s \in Shells |-> FALSE]
    /\ toStdin = [s \in Shells |-> FALSE]
    /\ readsStdin = [s \in Shells |-> FALSE]
    /\ stdin = [s \in Shells |-> "none"]
    /\ limiter = LimiterSize
    /\ spc = [s \in Shells |-> "idle"]
    /\ cur = [s \in Shells |-> "none"]
    /\ orphans = 0
    /\ returncode = [s \in Shells |-> None]
    /\ exitcode = [s \in Shells |-> None]
    /\ makes = [s \in Shells |-> 0]
    /\ mres = [s \in Shells |-> "none"]
    /\ merr = [s \in Shells |-> NoError]
    /\ blocked = 0
    /\ acquired = [s \in Shells |-> 0]
    /\ released = [s \in Shells |-> 0]

\* No output is being collected.
CollectIdle ==
    /\ produced = [st \in Streams |-> <<>>]
    /\ eof = [st \in Streams |-> FALSE]
    /\ nread = [st \in Streams |-> 0]
    /\ rtask = [st \in Streams |-> "none"]
    /\ rres = [st \in Streams |-> NoLine]
    /\ sink = <<>>
    /\ cpc = "idle"

\* None of the parts modelled on their own is in use.
\* No shell recipe with inputs has been declared.
InputIdle ==
    /\ declared = <<>>
    /\ layout = <<>>
    /\ inputParam = <<>>
    /\ catOut = <<>>
    /\ ipc = "new"
    /\ runs = 0

\* purge has not been called.
PurgeIdle ==
    /\ ptasks = <<>>
    /\ unlinks = [r \in Recipes |-> 0]
    /\ exists0 = [r \in Recipes |-> FALSE]

Nodes == 1..NumNodes

NoClean ==
    [op |-> "none", target |-> 0, before |-> <<>>, err |-> "none"]

\* clean has not been called.
\* No invocation has been made.
NoBake == [entry |-> "none", requested |-> {}, pc |-> "idle",
           status |-> "none", exit |-> None, err |-> "none"]

BakeIdle == bake = NoBake

\* No digest has been called.
NoDigest == [fn |-> "none", arg |-> <<>>, out |-> <<>>, err |-> "none",
             after |-> <<>>]

ParamIdle == dig = NoDigest

\* No make() of the recipe has reached the limiter and no return code is
\* stored.
NoSlot == [st |-> "none", n |-> 0, rc |-> None]

LiveIdle == lim = [r \in Recipes |-> NoSlot]

\* No FunctionalRecipe has been constructed.
NoFunc ==
    [st |-> "none", args |-> <<>>, kwargs |-> <<>>, deps |-> <<>>,
     lazy |-> <<>>, done |-> {}, cargs |-> <<>>, ckwargs |-> <<>>]

FuncIdle == fr = NoFunc

\* No shell recipe has been asked of the factory.
NoFactory ==
    [st |-> "none", via |-> "none", interactive |-> FALSE, asked |-> {},
     codes |-> {}, rc |-> None, ok |-> FALSE]

FactoryIdle == fac = NoFactory

\* The resources a build script registers with the engine.
NumResources == 3

ResourceNames == 1..NumResources

\* __call__ has not been entered.
NoConfig ==
    [st |-> "idle", cleaning |-> FALSE, cleanAll |-> FALSE, target |-> 0,
     keepers |-> {}, resources |-> <<>>, next |-> 1]

BuildIdle ==
    /\ cfg = NoConfig
    /\ rcache = [n \in ResourceNames |-> 0]
    /\ rlock = [n \in ResourceNames |-> 0]
    /\ rlockq = [n \in ResourceNames |-> <<>>]
    /\ reqs = <<>>

CleanIdle ==
    /\ fsys = [p \in Nodes |-> "absent"]
    /\ cop = NoClean

UnitsIdle ==
    /\ CollectIdle /\ rop = NoOp /\ heap = <<>> /\ InputIdle /\ PurgeIdle
    /\ CleanIdle
    /\ BakeIdle
    /\ ParamIdle
    /\ LiveIdle
    /\ FuncIdle
    /\ BuildIdle
    /\ FactoryIdle

\* No fan-out is running.
FanIdle ==
    /\ fanKind = "resolve"
    /\ branches = <<>>
    /\ fpc = "idle"
    /\ fres = NoResult

\* No recipe is being resolved and no output file exists.
EngineIdle ==
    /\ deps = [r \in Recipes |-> {}]
    /\ kind = [r \in Recipes |-> "file"]
    /\ debug = FALSE
    /\ now = 1
    /\ exists = [r \in Recipes |-> FALSE]
    /\ mtime = [r \in Recipes |-> 0]
    /\ lock = [r \in Recipes |-> NoTask]
    /\ lockq = [r \in Recipes |-> <<>>]
    /\ tasks = <<>>
    /\ makeCount = [r \in Recipes |-> 0]
    /\ probe = NoProbe

\* ------------------------------------------------------------- helpers
SetMin(S) == CHOOSE x \in S : \A y \in S : x <= y

RECURSIVE SortedSeq(_)
SortedSeq(S) ==
    IF S = {} THEN <<>>
    ELSE LET m == SetMin(S) IN <<m>> \o SortedSeq(S \ {m})

\* ------------------------------------------------------- staleness rule
\* Artifact.exists of a recipe's output: NullArtifact never exists.
OutputExists(r) == kind[r] = "file" /\ exists[r]

\* FileArtifact.age as read when the clock shows n: datetime.now() less
\* the file's modification time, timedelta.max for a missing file.
ReadAge(r, n) ==
    IF kind[r] = "file" /\ exists[r] THEN n - mtime[r] ELSE TimedeltaMax

\* Artifact.age of a recipe's output.
OutputAge(r) == ReadAge(r, now)

\* The leaves of Recipe.input: the non-null outputs of the dependencies.
InputLeaves(r) == {d \in deps[r] : kind[d] # "null"}

\* PolyArtifact.age of Recipe.input as read when the clock shows n.
InputAgeRead(r, n) ==
    IF InputLeaves(r) = {} THEN TimedeltaMax
    ELSE SetMin({ReadAge(d, n) : d \in InputLeaves(r)})

InputAge(r) == InputAgeRead(r, now)

\* is_done with the comparison made strict.
IsDoneStrict(r, n1, n2) ==
    OutputExists(r) /\ ReadAge(r, n1) < InputAgeRead(r, n2)

\* Recipe.is_done: output.age is read first, with the clock at n1, and
\* input.age after it, with the clock at n2.
IsDoneRead(r, n1, n2) ==
    OutputExists(r) /\ ReadAge(r, n1) <= InputAgeRead(r, n2)

\* Recipe.is_done read within one tick of the clock.
IsDone(r) == IsDoneRead(r, now, now)

\* ------------------------------------------------- the resolve coroutine
\* A task running Recipe.resolve on `recipe`, spawned by asyncio.gather in
\* task `parent` (NoTask: called by the build driver).
\*   pc       "start" | "waitlock" | "gather" | "make" | "done"
\*   raised   the finished task raised to its caller
\*   carries  the recipes whose failures the raised error carries
\*   kids     the tasks gathered by resolve_deps
\*   gexc     the gather's future holds an exception, carrying gcar
NewTask(r, p) ==
    [recipe |-> r, parent |-> p, pc |-> "start", raised |-> FALSE,
     carries |-> {}, kids |-> {}, gexc |-> FALSE, gcar |-> {}]

TaskIds == DOMAIN tasks

\* Recipe.dependencies
Dependencies(r) == deps[r]

\* A resolve_deps that resolves every other recipe.
EveryOtherRecipe(r) == SortedSeq(Recipes \ {r})

\* Recipe.direct_dependencies (sorted by name)
DirectDependencies(r) == SortedSeq(deps[r])

\* A task ends.  asyncio.gather without return_exceptions hands the first
\* exception of a child to the awaiting parent and lets the others run on.
Finish(ts, t, raised, car) ==
    LET p == ts[t].parent
        ts1 == [ts EXCEPT ![t].pc = "done", ![t].raised = raised,
                          ![t].carries = car]
    IN  IF p # NoTask /\ raised /\ ts[p].pc = "gather" /\ ~ts[p].gexc
        THEN [ts1 EXCEPT ![p].gexc = TRUE, ![p].gcar = car]
        ELSE ts1

\* resolve's "except Exception as e": log, re-raise only when config.debug;
\* leaving "async with" releases the lock.
ExceptHandler(t, car) ==
    /\ tasks' = Finish(tasks, t, debug, IF debug THEN car ELSE {})
    /\ lock' = [lock EXCEPT ![tasks[t].recipe] = NoTask]
    /\ UNCHANGED makeCount

\* resolve returns normally and releases the lock.
ReturnOk(t) ==
    /\ tasks' = Finish(tasks, t, FALSE, {})
    /\ lock' = [lock EXCEPT ![tasks[t].recipe] = NoTask]
    /\ UNCHANGED makeCount

\* "await self.make()": the work function is invoked.
StartMake(t) ==
    /\ tasks' = [tasks EXCEPT ![t].pc = "make"]
    /\ lock' = [lock EXCEPT ![tasks[t].recipe] = t]
    /\ makeCount' = [makeCount EXCEPT ![tasks[t].recipe] = @ + 1]

\* The second half of resolve_deps (every dependency must be done, the
\* first that is not raises BuildError), then log_action and make.
AssertDepsThenMake(t) ==
    LET notDone == {d \in Dependencies(tasks[t].recipe) : ~IsDone(d)}
    IN  IF notDone # {}
        THEN ExceptHandler(t, {SetMin(notDone)})
        ELSE StartMake(t)

\* The first half of resolve_deps: gather resolve() of the direct
\* dependencies that are not done.
ResolveDeps(t) ==
    LET r == tasks[t].recipe
        dd == DirectDependencies(r)
        todo == SelectSeq(dd, LAMBDA d : ~IsDone(d))
        n == Len(tasks)
    IN  IF todo = <<>>
        THEN AssertDepsThenMake(t)
        ELSE /\ tasks' = [tasks EXCEPT ![t].pc = "gather",
                                       ![t].kids = (n + 1)..(n + Len(todo))]
                         \o [i \in 1..Len(todo) |-> NewTask(todo[i], t)]
             /\ lock' = [lock EXCEPT ![r] = t]
             /\ UNCHANGED makeCount

\* A body of "async with self._lock" without the is_done short-circuit.
LockedNoSkip(t) == ResolveDeps(t)

\* The body of "async with self._lock", entered holding the lock.
Locked(t) ==
    IF IsDone(tasks[t].recipe) THEN ReturnOk(t) ELSE ResolveDeps(t)

\* A resolve() task runs its first segment: asyncio.Lock.acquire returns
\* at once when the lock is free and nobody waits, else the task queues.
StartResolve(t) ==
    /\ tasks[t].pc = "start"
    /\ LET r == tasks[t].recipe
       IN  IF lock[r] = NoTask /\ lockq[r] = <<>>
           THEN Locked(t) /\ UNCHANGED lockq
           ELSE /\ tasks' = [tasks EXCEPT ![t].pc = "waitlock"]
                /\ lockq' = [lockq EXCEPT ![r] = Append(@, t)]
                /\ UNCHANGED <<lock, makeCount>>
    /\ UNCHANGED notEngine
    /\ UNCHANGED <<deps, kind, debug, now, exists, mtime>>

\* The first waiter is woken once the lock is released.
AcquireLock(t) ==
    /\ tasks[t].pc = "waitlock"
    /\ LET r == tasks[t].recipe
       IN  /\ lock[r] = NoTask
           /\ lockq[r] # <<>>
           /\ Head(lockq[r]) = t
           /\ lockq' = [lockq EXCEPT ![r] = Tail(@)]
    /\ Locked(t)
    /\ UNCHANGED notEngine
    /\ UNCHANGED <<deps, kind, debug, now, exists, mtime>>

\* The gather of resolve_deps completes: with the first exception of a
\* child, or with every child finished.
GatherDone(t) ==
    /\ tasks[t].pc = "gather"
    /\ \/ /\ tasks[t].gexc
          /\ ExceptHandler(t, tasks[t].gcar)
       \/ /\ ~tasks[t].gexc
          /\ \A k \in tasks[t].kids : tasks[k].pc = "done"
          /\ AssertDepsThenMake(t)
    /\ UNCHANGED notEngine
    /\ UNCHANGED <<deps, kind, debug, now, exists, mtime, lockq>>

\* While make() runs, the work (for a shell recipe, its subprocess) creates
\* or rewrites the recipe's output file.
MakeWrite(t) ==
    /\ tasks[t].pc = "make"
    /\ LET r == tasks[t].recipe
       IN  /\ kind[r] = "file"
           /\ ~exists[r] \/ mtime[r] # now
           /\ exists' = [exists EXCEPT ![r] = TRUE]
           /\ mtime' = [mtime EXCEPT ![r] = now]
    /\ UNCHANGED notEngine
    /\ UNCHANGED <<deps, kind, debug, now, lock, lockq, tasks, makeCount>>

\* make() returns; resolve then calls assert_is_done.
MakeReturn(t) ==
    /\ tasks[t].pc = "make"
    /\ IF IsDone(tasks[t].recipe)
       THEN ReturnOk(t)
       ELSE ExceptHandler(t, {tasks[t].recipe})
    /\ UNCHANGED notEngine
    /\ UNCHANGED <<deps, kind, debug, now, exists, mtime, lockq>>

\* make() raises.
MakeRaise(t) ==
    /\ tasks[t].pc = "make"
    /\ ExceptHandler(t, {tasks[t].recipe})
    /\ UNCHANGED notEngine
    /\ UNCHANGED <<deps, kind, debug, now, exists, mtime, lockq>>

\* Time passes.
ClockAdvance ==
    /\ now < MaxTime
    /\ now' = now + 1
    /\ UNCHANGED <<deps, kind, debug, exists, mtime>>

\* The clock ticks while recipes are resolved.
Tick == ClockAdvance /\ UNCHANGED <<resolveVars, notEngine>>

Init ==
    /\ UnitsIdle
    /\ ShellIdle
    /\ FanIdle
    /\ probe = NoProbe
    /\ deps \in {GraphDeps(g) : g \in Graphs}
    /\ kind = [r \in Recipes |-> "file"]
    /\ debug \in BOOLEAN
    /\ now = 1
    /\ exists \in [Recipes -> BOOLEAN]
    /\ mtime \in [Recipes -> 0..1]
    /\ \A r \in Recipes : ~exists[r] => mtime[r] = 0
    /\ lock = [r \in Recipes |-> NoTask]
    /\ lockq = [r \in Recipes |-> <<>>]
    /\ tasks = <<NewTask(1, NoTask)>>
    /\ makeCount = [r \in Recipes |-> 0]

Next ==
    \/ \E t \in TaskIds : StartResolve(t)
    \/ \E t \in TaskIds : AcquireLock(t)
    \/ \E t \in TaskIds : GatherDone(t)
    \/ \E t \in TaskIds : MakeWrite(t)
    \/ \E t \in TaskIds : MakeReturn(t)
    \/ \E t \in TaskIds : MakeRaise(t)
    \/ Tick

Spec == Init /\ [][Next]_vars

\* ----------------------------------------------------- claims C1 .. C6
\* The number of dependency paths from recipe a to recipe b.
RECURSIVE PathCount(_, _)
PathCount(a, b) ==
    IF a = b THEN 1
    ELSE LET ds == SortedSeq(deps[a])
             F[i \in 0..Len(ds)] ==
                 IF i = 0 THEN 0 ELSE F[i - 1] + PathCount(ds[i], b)
         IN  F[Len(ds)]

\* Reachable from the resolved root (recipe 1) along two or more paths.
Shared(r) == PathCount(1, r) >= 2

\* The step in which task t invokes its recipe's make().
MakeStarts(t) == tasks[t].pc # "make" /\ tasks'[t].pc = "make"

\* The step in which task t's resolve() ends.
ResolveEnds(t) == tasks[t].pc # "done" /\ tasks'[t].pc = "done"

\* The step in which task t, holding its recipe's lock, evaluates is_done.
ChecksDone(t) ==
    tasks[t].pc \in {"start", "waitlock"} /\ tasks'[t].pc # tasks[t].pc
        /\ tasks'[t].pc # "waitlock"

\* C1: a recipe reached from the resolved root along two or more paths has
\* its work function invoked once, never a second time, whatever the
\* interleaving and whether its work succeeds or fails.
C1_SharedMadeOnce == \A r \in Recipes : Shared(r) => makeCount[r] <= 1

\* C2: resolve(R) returns normally only if R is done when it returns
\* (a failed dependency, a raising or ineffective work function raise to the
\* caller whatever the debug setting).
C2_ReturnsOnlyIfDone ==
    [][\A t \in TaskIds :
          (ResolveEnds(t) /\ ~tasks'[t].raised) => IsDone(tasks[t].recipe)']_vars

\* C3: R's work function starts only after the resolve of every direct
\* dependency of R has finished, and only when every dependency is done.
C3_MakeAfterDepsResolved ==
    [][\A t \in TaskIds :
          MakeStarts(t) =>
              \A d \in deps[tasks[t].recipe] :
                  /\ IsDone(d)
                  /\ lock[d] = NoTask
                  /\ \A k \in tasks[t].kids : tasks[k].pc = "done"]_vars

\* C4: when two or more direct dependencies of R have failed in the same
\* fan-out, the error raised by resolving R carries every one of those
\* failures.
C4_ErrorCarriesEveryFailure ==
    [][\A t \in TaskIds :
          (ResolveEnds(t) /\ tasks'[t].raised) =>
              LET failed == {k \in tasks[t].kids :
                                tasks[k].pc = "done" /\ tasks[k].raised}
              IN  Cardinality(failed) >= 2 =>
                      \A k \in failed : tasks[k].carries \subseteq tasks'[t].carries]_vars

\* C6: a resolve() that finds its recipe done invokes neither the work
\* function nor the resolution of a dependency, changes no artifact and
\* returns without error.
C6_DoneIsSkipped ==
    [][\A t \in TaskIds :
          (ChecksDone(t) /\ IsDone(tasks[t].recipe)) =>
              /\ tasks'[t].pc = "done"
              /\ ~tasks'[t].raised
              /\ makeCount' = makeCount
              /\ Len(tasks') = Len(tasks)
              /\ exists' = exists /\ mtime' = mtime
              /\ lock'[tasks[t].recipe] = NoTask]_vars

\* A resolve() has skipped a recipe it found done after waiting for the
\* lock behind the task that made it.
C6_Witness ==
    \E t \in TaskIds :
        /\ tasks[t].pc = "done" /\ tasks[t].kids = {} /\ ~tasks[t].raised
        /\ tasks[t].parent # NoTask
        /\ makeCount[tasks[t].recipe] = 1
        /\ IsDone(tasks[t].recipe)
        /\ \E u \in TaskIds : u # t /\ tasks[u].recipe = tasks[t].recipe
                                /\ tasks[u].pc = "done"

\* --------------------------------------- the staleness rule on its own
\* A file is written from outside the engine (an editor, a compiler).
Touch(r) ==
    /\ kind[r] = "file"
    /\ ~exists[r] \/ mtime[r] # now
    /\ exists' = [exists EXCEPT ![r] = TRUE]
    /\ mtime' = [mtime EXCEPT ![r] = now]
    /\ probe' = NoProbe
    /\ UNCHANGED <<deps, kind, debug, now, notStale>>

\* FileArtifact.clean: an existing output file is deleted.
FileClean(r) ==
    /\ kind[r] = "file"
    /\ exists[r]
    /\ exists' = [exists EXCEPT ![r] = FALSE]
    /\ mtime' = [mtime EXCEPT ![r] = 0]
    /\ probe' = NoProbe
    /\ UNCHANGED <<deps, kind, debug, now, notStale>>

\* Time passes between two reads of is_done.
StaleTick == ClockAdvance /\ probe' = NoProbe /\ UNCHANGED notStale

\* A caller reads recipe.is_done; the clock may tick between the read of
\* output.age and the read of input.age.
ReadIsDone(r) ==
    /\ \E k \in 0..1 :
          probe' = [recipe |-> r, skew |-> k,
                    done |-> IsDoneRead(r, now, now + k)]
    /\ UNCHANGED <<fsVars, notStale>>

InitStale ==
    /\ UnitsIdle
    /\ ShellIdle
    /\ FanIdle
    /\ probe = NoProbe
    /\ deps \in {GraphDeps(g) : g \in Graphs}
    /\ kind \in [Recipes -> {"file", "null"}]
    /\ debug = FALSE
    /\ now = 1
    /\ exists \in [Recipes -> BOOLEAN]
    /\ mtime \in [Recipes -> 0..1]
    /\ \A r \in Recipes : ~(kind[r] = "file" /\ exists[r]) => mtime[r] = 0
    /\ \A r \in Recipes : kind[r] = "null" => ~exists[r]
    /\ lock = [r \in Recipes |-> NoTask]
    /\ lockq = [r \in Recipes |-> <<>>]
    /\ tasks = <<>>
    /\ makeCount = [r \in Recipes |-> 0]

NextStale ==
    \/ \E r \in Recipes : Touch(r)
    \/ \E r \in Recipes : FileClean(r)
    \/ \E r \in Recipes : ReadIsDone(r)
    \/ StaleTick

SpecStale == InitStale /\ [][NextStale]_vars

\* The output files of r's dependencies that exist.
ExistingInputs(r) == {d \in deps[r] : kind[d] = "file" /\ exists[d]}

RECURSIVE SumTo(_, _)
SumTo(f, n) == IF n = 0 THEN 0 ELSE f[n] + SumTo(f, n - 1)

\* The task running s's make() holds a limiter slot.
HoldsSlot(s) == acquired[s] > released[s]

\* A make() whose release is reached only when nothing was raised.
ReleaseUnlessRaised(s, v, res) ==
    /\ limiter' = IF res = "ok" THEN v + 1 ELSE v
    /\ released' = IF res = "ok" THEN [released EXCEPT ![s] = @ + 1]
                   ELSE released
    /\ spc' = [spc EXCEPT ![s] = "idle"]
    /\ mres' = [mres EXCEPT ![s] = res]
    /\ cur' = [cur EXCEPT ![s] = "none"]
    /\ exitcode' = [exitcode EXCEPT ![s] = None]
    /\ stdin' = [stdin EXCEPT ![s] = "none"]
    /\ orphans' = IF cur[s] = "running" THEN orphans + 1 ELSE orphans

\* BuildError("ShellCommand has failed (returncode: %d)" % returncode)
ShellCommandFailed(rc) == [type |-> "BuildError", code |-> rc, command |-> FALSE]

\* BuildError("ShellRecipe has failed previously.")
FailedPreviously == [type |-> "BuildError", code |-> None, command |-> FALSE]

\* An exception that is not a BuildError: OSError from the spawn,
\* UnicodeEncodeError from the payload, ValueError from readline or from
\* the return code's setter.
OtherError(t) == [type |-> t, code |-> None, command |-> FALSE]

\* ShellRecipe.make's "finally: self._limiter.release()", with v free slots
\* before it; make() then returns (res "ok") or raises (res "raised").  A
\* BoundedSemaphore refuses a release beyond its bound with ValueError.  A
\* subprocess still running is left behind.
Finally(s, v, res) ==
    /\ limiter' = IF v >= LimiterSize THEN v ELSE v + 1
    /\ released' = [released EXCEPT ![s] = @ + 1]
    /\ spc' = [spc EXCEPT ![s] = "idle"]
    /\ mres' = [mres EXCEPT ![s] = IF v >= LimiterSize THEN "raised" ELSE res]
    /\ cur' = [cur EXCEPT ![s] = "none"]
    /\ exitcode' = [exitcode EXCEPT ![s] = None]
    /\ stdin' = [stdin EXCEPT ![s] = "none"]
    /\ orphans' = IF cur[s] = "running" THEN orphans + 1 ELSE orphans

\* make() past "await self._limiter.acquire()", v free slots left:
\* create_subprocess_shell forks the subprocess before it first suspends,
\* or raises.
ShellStart(s, v) ==
    /\ acquired' = [acquired EXCEPT ![s] = @ + 1]
    /\ \/ /\ limiter' = v
          /\ cur' = [cur EXCEPT ![s] = "running"]
          /\ spc' = [spc EXCEPT ![s] = "spawning"]
          /\ stdin' = [stdin EXCEPT ![s] = "open"]
          /\ UNCHANGED <<released, mres, merr, orphans, exitcode>>
       \/ /\ Finally(s, v, "raised")
          /\ merr' = [merr EXCEPT ![s] = OtherError("OSError")]

\* A constructor that accepts every combination of arguments.
RefusesNothing(inter, payload) == FALSE

\* InteractiveShellRecipe.__init__ raises ValueError for a to_stdin payload.
Refuses(inter, payload) == inter /\ payload

\* sh(cmd, interactive=inter, to_stdin=...) constructs a shell recipe:
\* ShellRecipe.__init__ stores the arguments, then the interactive class
\* checks the payload.  reads: the command reads standard input to its
\* end, which an interactive command does from the terminal.
ShellNew(s, inter, payload, reads) ==
    /\ blocked = 0
    /\ built[s] = "none"
    /\ inter => ~reads
    /\ interactive' = [interactive EXCEPT ![s] = inter]
    /\ toStdin' = [toStdin EXCEPT ![s] = payload]
    /\ readsStdin' = [readsStdin EXCEPT ![s] = reads]
    /\ built' = [built EXCEPT ![s] =
                    IF Refuses(inter, payload) THEN "refused" ELSE "built"]
    /\ UNCHANGED <<stdin, limiter, spc, cur, orphans, returncode, exitcode,
                   makes, mres, merr, blocked, acquired, released>>
    /\ UNCHANGED notShell

\* ShellRecipe.make is called: the has_returncode guard, then the limiter.
ShellMake(s) ==
    /\ blocked = 0
    /\ built[s] = "built"
    /\ ~interactive[s]
    /\ spc[s] = "idle"
    /\ SumTo(makes, NumShells) < MaxMakes
    /\ makes' = [makes EXCEPT ![s] = @ + 1]
    /\ IF returncode[s] # None
       THEN /\ mres' = [mres EXCEPT ![s] =
                           IF returncode[s] \in SuccessCodes THEN "ok"
                           ELSE "raised"]
            /\ merr' = [merr EXCEPT ![s] =
                           IF returncode[s] \in SuccessCodes THEN NoError
                           ELSE FailedPreviously]
            /\ UNCHANGED <<limiter, spc, cur, stdin, orphans, exitcode, acquired,
                           released>>
       ELSE IF limiter > 0
            THEN ShellStart(s, limiter - 1)
            ELSE /\ spc' = [spc EXCEPT ![s] = "waitslot"]
                 /\ UNCHANGED <<limiter, cur, stdin, orphans, exitcode, mres, merr,
                                acquired, released>>
    /\ UNCHANGED <<built, interactive, toStdin, readsStdin, returncode, blocked>>
    /\ UNCHANGED notShell

\* A make() waiting for the limiter gets a slot.
ShellSlotGranted(s) ==
    /\ blocked = 0
    /\ spc[s] = "waitslot"
    /\ limiter > 0
    /\ ShellStart(s, limiter - 1)
    /\ UNCHANGED <<built, interactive, toStdin, readsStdin, returncode, blocked, makes>>
    /\ UNCHANGED notShell

\* create_subprocess_shell returns; the to_stdin payload, if any, is
\* encoded and written (which may raise); the collector is started.
ShellSpawned(s) ==
    /\ blocked = 0
    /\ spc[s] = "spawning"
    /\ \/ /\ spc' = [spc EXCEPT ![s] = "collect"]
          /\ UNCHANGED <<limiter, released, mres, merr, cur, stdin, orphans, exitcode>>
       \/ /\ toStdin[s]
          /\ Finally(s, limiter, "raised")
          /\ merr' = [merr EXCEPT ![s] = OtherError("UnicodeEncodeError")]
    /\ UNCHANGED <<built, interactive, toStdin, readsStdin, returncode, blocked, makes, acquired>>
    /\ UNCHANGED notShell

\* collector.collect returns (both streams at end-of-file) or raises (a
\* readline beyond the stream's limit).
ShellCollectEnds(s) ==
    /\ blocked = 0
    /\ spc[s] = "collect"
    /\ \/ /\ spc' = [spc EXCEPT ![s] = "wait"]
          /\ UNCHANGED <<limiter, released, mres, merr, cur, stdin, orphans, exitcode>>
       \/ /\ Finally(s, limiter, "raised")
          /\ merr' = [merr EXCEPT ![s] = OtherError("ValueError")]
    /\ UNCHANGED <<built, interactive, toStdin, readsStdin, returncode, blocked, makes, acquired>>
    /\ UNCHANGED notShell

\* The subprocess of a ShellRecipe exits; a command that reads standard
\* input to end-of-file does so only once that input has been closed.
SubprocessExits(s) ==
    /\ ~interactive[s]
    /\ cur[s] = "running"
    /\ readsStdin[s] => stdin[s] = "closed"
    /\ cur' = [cur EXCEPT ![s] = "exited"]
    /\ \E rc \in ExitCodes : exitcode' = [exitcode EXCEPT ![s] = rc]
    /\ UNCHANGED <<built, interactive, toStdin, readsStdin, stdin, limiter, spc, orphans, returncode,
                   makes, mres, merr, blocked, acquired, released>>
    /\ UNCHANGED notShell

\* A subprocess left behind by a make() that raised exits.
OrphanExits ==
    /\ orphans > 0
    /\ orphans' = orphans - 1
    /\ UNCHANGED <<built, interactive, toStdin, readsStdin, stdin, limiter, spc, cur, returncode,
                   exitcode, makes, mres, merr, blocked, acquired, released>>
    /\ UNCHANGED notShell

\* proc.wait() returns: the return code is stored (the setter refuses a
\* second value) and checked against the success codes.
ShellWaitEnds(s) ==
    /\ blocked = 0
    /\ spc[s] = "wait"
    /\ cur[s] = "exited"
    /\ IF returncode[s] # None
       THEN /\ Finally(s, limiter, "raised")
            /\ merr' = [merr EXCEPT ![s] = OtherError("ValueError")]
            /\ UNCHANGED returncode
       ELSE /\ returncode' = [returncode EXCEPT ![s] = exitcode[s]]
            /\ Finally(s, limiter,
                       IF exitcode[s] \in SuccessCodes THEN "ok" ELSE "raised")
            /\ merr' = [merr EXCEPT ![s] =
                           IF exitcode[s] \in SuccessCodes THEN NoError
                           ELSE ShellCommandFailed(exitcode[s])]
    /\ UNCHANGED <<built, interactive, toStdin, readsStdin, blocked, makes, acquired>>
    /\ UNCHANGED notShell

\* InteractiveShellRecipe.make is called: subprocess.call starts the
\* command and blocks the event loop until it ends.
InteractiveMake(s) ==
    /\ blocked = 0
    /\ built[s] = "built"
    /\ interactive[s]
    /\ spc[s] = "idle"
    /\ SumTo(makes, NumShells) < MaxMakes
    /\ makes' = [makes EXCEPT ![s] = @ + 1]
    /\ cur' = [cur EXCEPT ![s] = "running"]
    /\ spc' = [spc EXCEPT ![s] = "call"]
    /\ blocked' = s
    /\ UNCHANGED <<built, interactive, toStdin, readsStdin, stdin, limiter, orphans, returncode,
                   exitcode, mres, merr, acquired, released>>
    /\ UNCHANGED notShell

\* subprocess.call returns the command's return code to the setter.
InteractiveReturns(s) ==
    /\ spc[s] = "call"
    /\ \E rc \in ExitCodes :
          IF returncode[s] # None
          THEN /\ mres' = [mres EXCEPT ![s] = "raised"]
               /\ merr' = [merr EXCEPT ![s] = OtherError("ValueError")]
               /\ UNCHANGED returncode
          ELSE /\ returncode' = [returncode EXCEPT ![s] = rc]
               /\ mres' = [mres EXCEPT ![s] =
                              IF rc \in SuccessCodes THEN "ok" ELSE "raised"]
               /\ merr' = [merr EXCEPT ![s] =
                              IF rc \in SuccessCodes THEN NoError
                              ELSE ShellCommandFailed(rc)]
    /\ cur' = [cur EXCEPT ![s] = "none"]
    /\ spc' = [spc EXCEPT ![s] = "idle"]
    /\ blocked' = 0
    /\ UNCHANGED <<built, interactive, toStdin, readsStdin, stdin, limiter, orphans, exitcode, makes,
                   acquired, released>>
    /\ UNCHANGED notShell

InitShell ==
    /\ UnitsIdle
    /\ EngineIdle
    /\ FanIdle
    /\ ShellIdle

NextShell ==
    \/ \E s \in Shells, inter, payload, reads \in BOOLEAN :
          ShellNew(s, inter, payload, reads)
    \/ \E s \in Shells : ShellMake(s)
    \/ \E s \in Shells : ShellSlotGranted(s)
    \/ \E s \in Shells : ShellSpawned(s)
    \/ \E s \in Shells : ShellCollectEnds(s)
    \/ \E s \in Shells : SubprocessExits(s)
    \/ \E s \in Shells : ShellWaitEnds(s)
    \/ \E s \in Shells : InteractiveMake(s)
    \/ \E s \in Shells : InteractiveReturns(s)
    \/ OrphanExits

SpecShell == InitShell /\ [][NextShell]_vars

\* The subprocesses that have been spawned and have not exited.
LiveSubprocesses == Cardinality({s \in Shells : cur[s] = "running"}) + orphans

\* C7: the subprocesses spawned and not yet exited never outnumber the
\* limiter's slots, and a subprocess is spawned only by a task that holds
\* a slot, interactive recipes included.
C7_SubprocessesWithinLimiter ==
    /\ LiveSubprocesses <= LimiterSize
    /\ \A s \in Shells : cur[s] = "running" => HoldsSlot(s)

\* C15: an interactive shell recipe given a stdin payload is refused by
\* its constructor: it never spawns a subprocess and never takes a limiter
\* slot, and the constructor leaves the limiter and every subprocess as
\* they were.
C15_InteractivePayloadRefused ==
    \A s \in Shells :
        (built[s] # "none" /\ interactive[s] /\ toStdin[s]) =>
            /\ built[s] = "refused"
            /\ makes[s] = 0
            /\ cur[s] = "none"
            /\ spc[s] = "idle"
            /\ acquired[s] = 0
            /\ returncode[s] = None

\* An interactive recipe with a payload has been refused while another
\* recipe's subprocess was running with the only limiter slot.
C15_Witness ==
    \E s, t \in Shells :
        /\ built[s] = "refused"
        /\ interactive[s] /\ toStdin[s]
        /\ cur[t] = "running"
        /\ HoldsSlot(t)

\* C13: when the return code of a recipe's subprocess is outside the
\* success codes, make raises a build failure that names the command and
\* the return code; when it is among them, make returns normally.
C13_FailureNamesCommandAndCode ==
    \A s \in Shells :
        (makes[s] = 1 /\ spc[s] = "idle" /\ returncode[s] # None) =>
            IF returncode[s] \in SuccessCodes
            THEN mres[s] = "ok"
            ELSE /\ mres[s] = "raised"
                 /\ merr[s].type = "BuildError"
                 /\ merr[s].code = returncode[s]
                 /\ merr[s].command

\* C12: once the to_stdin payload of a shell recipe has been written, the
\* subprocess's standard input is closed, so that a command reading it to
\* end-of-file can exit.
C12_StdinClosedAfterPayload ==
    \A s \in Shells :
        (toStdin[s] /\ spc[s] \in {"collect", "wait"}) => stdin[s] = "closed"

\* C8: every slot a make() acquires is released exactly once before that
\* make() returns or raises, no release is made without its acquire, and
\* the free slots never exceed the limiter's size.
C8_SlotReleasedExactlyOnce ==
    /\ \A s \in Shells :
          /\ released[s] <= acquired[s]
          /\ acquired[s] <= released[s] + 1
          /\ spc[s] \in {"idle", "waitslot", "call"} => acquired[s] = released[s]
    /\ limiter >= 0
    /\ limiter <= LimiterSize
    /\ limiter = LimiterSize
                 - SumTo([s \in Shells |-> acquired[s] - released[s]], NumShells)

\* A make() has raised on a return code outside the success codes and
\* another before any return code was stored (spawn, stdin write or
\* collection failed), each with its slot given back; the latter recipe
\* has been made again and holds the slot.
C8_Witness ==
    \E s1, s2 \in Shells :
        /\ mres[s1] = "raised" /\ returncode[s1] = 1
        /\ acquired[s1] = 1 /\ released[s1] = 1
        /\ mres[s2] = "raised" /\ returncode[s2] = None
        /\ acquired[s2] = 2 /\ released[s2] = 1
        /\ limiter = LimiterSize - 1

\* ------------------------------------- errors.py, poly.py: the fan-outs
\* What a branch hands to gather: the object it returned or raised.  isexc
\* is isinstance(v, Exception); from and tag give the object its identity.
BranchValues(i) ==
    [isexc : BOOLEAN, from : {i}, tag : {1}]

\* None, returned by Recipe.resolve and Recipe.clean.
NoneValue(i) == [isexc |-> FALSE, from |-> i, tag |-> 0]

NewBranch(i) ==
    [pc |-> "pending", raised |-> FALSE, val |-> NoneValue(i), at |-> 0]

BranchIds == DOMAIN branches

\* How many branches have finished.
Finished(bs) == Cardinality({i \in DOMAIN bs : bs[i].pc = "done"})

\* A gather that wakes its awaiter on the first exception.
GatherFirstException(bs) ==
    \/ \A i \in DOMAIN bs : bs[i].pc = "done"
    \/ \E i \in DOMAIN bs : bs[i].pc = "done" /\ bs[i].raised

\* asyncio.gather(..., return_exceptions=True) is finished: every child has
\* returned or raised.
GatherComplete(bs) == \A i \in DOMAIN bs : bs[i].pc = "done"

\* The list gather returns: each branch's result, or the exception it
\* raised, in branch order.
Gathered(bs) == [i \in DOMAIN bs |-> bs[i].val]

IsException(v) == v.isexc

\* AggregateError.aggregate(*values)
Aggregate(values) ==
    LET errors == SelectSeq(values, IsException)
    IN  IF errors # <<>>
        THEN [raised |-> TRUE, errors |-> errors, result |-> <<>>]
        ELSE [raised |-> FALSE, errors |-> <<>>, result |-> values]

\* ParallelRecipe.resolve, ParallelRecipe.clean or _deep_resolve of an
\* iterable is called on n branches: gather schedules one task per branch.
FanCall(n) ==
    /\ fpc = "idle"
    /\ branches' = [i \in 1..n |-> NewBranch(i)]
    /\ fpc' = "gather"
    /\ UNCHANGED <<fanKind, fres>>
    /\ UNCHANGED notFan

\* The event loop starts a branch's task.
BranchStart(i) ==
    /\ branches[i].pc = "pending"
    /\ branches' = [branches EXCEPT ![i].pc = "running"]
    /\ UNCHANGED <<fanKind, fpc, fres>>
    /\ UNCHANGED notFan

\* A branch returns: None from a recipe's resolve or clean, any object
\* from _deep_resolve of a value.
BranchReturns(i) ==
    /\ branches[i].pc = "running"
    /\ \E v \in (IF fanKind = "deep_resolve" THEN BranchValues(i)
                 ELSE {NoneValue(i)}) :
          branches' = [branches EXCEPT ![i] =
                          [pc |-> "done", raised |-> FALSE, val |-> v,
                           at |-> Finished(branches) + 1]]
    /\ UNCHANGED <<fanKind, fpc, fres>>
    /\ UNCHANGED notFan

\* A branch raises an exception.
BranchRaises(i) ==
    /\ branches[i].pc = "running"
    /\ branches' = [branches EXCEPT ![i] =
                       [pc |-> "done", raised |-> TRUE,
                        val |-> [isexc |-> TRUE, from |-> i, tag |-> 1],
                        at |-> Finished(branches) + 1]]
    /\ UNCHANGED <<fanKind, fpc, fres>>
    /\ UNCHANGED notFan

\* gather hands its list to AggregateError.aggregate and the fan-out
\* returns or raises.
FanGatherDone ==
    /\ fpc = "gather"
    /\ GatherComplete(branches)
    /\ fres' = Aggregate(Gathered(branches))
    /\ fpc' = "done"
    /\ UNCHANGED <<fanKind, branches>>
    /\ UNCHANGED notFan

InitFan ==
    /\ UnitsIdle
    /\ EngineIdle
    /\ ShellIdle
    /\ fanKind \in {"resolve", "clean", "deep_resolve"}
    /\ branches = <<>>
    /\ fpc = "idle"
    /\ fres = NoResult

NextFan ==
    \/ \E n \in 0..MaxBranches : FanCall(n)
    \/ \E i \in BranchIds : BranchStart(i)
    \/ \E i \in BranchIds : BranchReturns(i)
    \/ \E i \in BranchIds : BranchRaises(i)
    \/ FanGatherDone

SpecFan == InitFan /\ [][NextFan]_vars

\* The positions of the gathered values that are exceptions.
ExceptionAt == {i \in BranchIds : branches[i].val.isexc}

\* C9: aggregate raises one AggregateError whose errors are exactly the
\* gathered values that are exceptions, in branch order, when there is at
\* least one, and otherwise returns every value in order; the result of a
\* branch that succeeded is never among the errors.
C9_AggregateKeepsErrorsApart ==
    fpc = "done" =>
        /\ ExceptionAt # {} =>
              /\ fres.raised
              /\ Len(fres.errors) = Cardinality(ExceptionAt)
              /\ \A k \in DOMAIN fres.errors : fres.errors[k].from \in ExceptionAt
              /\ \A k, l \in DOMAIN fres.errors :
                    k < l => fres.errors[k].from < fres.errors[l].from
              /\ \A k \in DOMAIN fres.errors :
                    fres.errors[k] = branches[fres.errors[k].from].val
        /\ ExceptionAt = {} =>
              /\ ~fres.raised
              /\ fres.result = Gathered(branches)
        /\ \A i \in BranchIds : ~branches[i].raised =>
              \A k \in DOMAIN fres.errors : fres.errors[k].from # i

\* C10: an aggregated fan-out ends only when every one of its branches
\* has run to its end (returned or raised), whatever its siblings did, and
\* what each branch raised is then among the errors.
C10_EveryBranchCompletes ==
    fpc = "done" =>
        \A i \in BranchIds :
            /\ branches[i].pc = "done"
            /\ branches[i].raised =>
                  \E k \in DOMAIN fres.errors : fres.errors[k] = branches[i].val

\* A fan-out has ended in which a branch failed first and two siblings then
\* ran to their ends, one returning and one raising.
C10_Witness ==
    /\ fpc = "done"
    /\ \E i, j, k \in BranchIds :
          /\ branches[i].raised /\ branches[i].at = 1
          /\ ~branches[j].raised /\ branches[j].at > 1
          /\ branches[k].raised /\ branches[k].at > 1

\* ------------------------------- shell.py: AsyncOutputCollector.collect
\* What collect() leaves alone.
notCollect ==
    <<fsVars, resolveVars, probe, shellVars, fanVars, resultVars, polyVars,
      inputVars, purgeVars, cleanVars,
      facVars,
      buildVars,
      funcVars,
      liveVars,
      paramVars,
      bakeVars>>

\* The subprocess writes one more line to a stream; long: the line is
\* longer than the StreamReader's limit.
ProcWrites(st, long) ==
    /\ ~eof[st]
    /\ Len(produced[st]) < MaxLines
    /\ produced' = [produced EXCEPT ![st] = Append(@, long)]
    /\ UNCHANGED <<eof, nread, rtask, rres, sink, cpc>>
    /\ UNCHANGED notCollect

\* The subprocess closes a stream (or exits).
ProcCloses(st) ==
    /\ ~eof[st]
    /\ eof' = [eof EXCEPT ![st] = TRUE]
    /\ UNCHANGED <<produced, nread, rtask, rres, sink, cpc>>
    /\ UNCHANGED notCollect

\* A _setup_readline_task that starts no task.
SetupNothing(rt, sts) == rt

\* _setup_readline_task: asyncio.Task(stream.readline()) for each stream
\* of `sts`, on the task table `rt`.
SetupReadlineTasks(rt, sts) ==
    [st \in Streams |-> IF st \in sts THEN "pending" ELSE rt[st]]

\* collect() is called: one readline task per stream, then asyncio.wait.
CollectStart ==
    /\ cpc = "idle"
    /\ rtask' = SetupReadlineTasks(rtask, Streams)
    /\ cpc' = "waiting"
    /\ UNCHANGED <<produced, eof, nread, rres, sink>>
    /\ UNCHANGED notCollect

\* StreamReader.readline finishes: the next whole line, a ValueError for a
\* line beyond the limit, or empty bytes at end-of-file.
ReadlineDone(st) ==
    /\ rtask[st] = "pending"
    /\ IF nread[st] < Len(produced[st])
       THEN /\ nread' = [nread EXCEPT ![st] = @ + 1]
            /\ rres' = [rres EXCEPT ![st] =
                           [kind |-> IF produced[st][nread[st] + 1]
                                     THEN "exc" ELSE "line",
                            n |-> nread[st] + 1]]
       ELSE /\ eof[st]
            /\ rres' = [rres EXCEPT ![st] = NoLine]
            /\ UNCHANGED nread
    /\ rtask' = [rtask EXCEPT ![st] = "done"]
    /\ UNCHANGED <<produced, eof, sink, cpc>>
    /\ UNCHANGED notCollect

\* The orders in which "for future in done" can visit the set `done`.
Orders(S) ==
    {o \in [1..Cardinality(S) -> S] :
        \A i, j \in 1..Cardinality(S) : i # j => o[i] # o[j]}

\* The body of "for future in done" for the finished tasks in order o,
\* from the i-th on, on the state c = [rt, sk, raised].
RECURSIVE ForDone(_, _, _)
ForDone(o, i, c) ==
    IF i > Len(o) \/ c.raised THEN c
    ELSE LET st == o[i]
             popped == [c.rt EXCEPT ![st] = "none"]
         IN  ForDone(o, i + 1,
                 IF rres[st].kind = "exc"
                 THEN [rt |-> popped, sk |-> c.sk, raised |-> TRUE]
                 ELSE IF rres[st].kind = "line"
                 THEN [rt |-> SetupReadlineTasks(popped, {st}),
                       sk |-> Append(c.sk, [stderr |-> st = "stderr",
                                            line |-> rres[st].n]),
                       raised |-> FALSE]
                 ELSE [rt |-> popped, sk |-> c.sk, raised |-> FALSE])

\* asyncio.wait(FIRST_COMPLETED) returns: every finished readline task is
\* popped, its line handed to the sink and its stream re-armed; the loop
\* ends when no task is left.
CollectWakes ==
    /\ cpc = "waiting"
    /\ LET done == {st \in Streams : rtask[st] = "done"}
       IN  /\ done # {}
           /\ \E o \in Orders(done) :
                 LET c == ForDone(o, 1, [rt |-> rtask, sk |-> sink,
                                         raised |-> FALSE])
                 IN  /\ rtask' = c.rt
                     /\ sink' = c.sk
                     /\ cpc' = IF c.raised THEN "raised"
                               ELSE IF \A st \in Streams : c.rt[st] = "none"
                               THEN "done" ELSE "waiting"
    /\ UNCHANGED <<produced, eof, nread, rres>>
    /\ UNCHANGED notCollect

InitCollect ==
    /\ EngineIdle
    /\ ShellIdle
    /\ FanIdle
    /\ UnitsIdle

NextCollect ==
    \/ \E st \in Streams, long \in BOOLEAN : ProcWrites(st, long)
    \/ \E st \in Streams : ProcCloses(st)
    \/ CollectStart
    \/ \E st \in Streams : ReadlineDone(st)
    \/ CollectWakes

SpecCollect == InitCollect /\ [][NextCollect]_vars

\* InMemoryOutputSink.lines for one stream: the numbers of its lines in
\* the order the sink holds them.
SinkLines(st) ==
    LET OfStream(l) == l.stderr = (st = "stderr")
        ls == SelectSeq(sink, OfStream)
    IN  [i \in 1..Len(ls) |-> ls[i].line]

\* C11: whatever lines the subprocess writes to stdout and stderr and
\* however they interleave, collection does not fail, and once both
\* streams are at end-of-file and collection is over the sink holds
\* every line of each stream, under the right heading and in the order
\* the stream produced them.
C11_CollectsEveryLine ==
    /\ cpc # "raised"
    /\ cpc = "done" =>
          \A st \in Streams :
              SinkLines(st) = [i \in 1..Len(produced[st]) |-> i]

\* The stream has not reached end-of-file: the subprocess has not closed
\* it, or lines of it are still to be read.
Open(st) == ~eof[st] \/ nread[st] < Len(produced[st])

notResult ==
    <<fsVars, resolveVars, probe, fanVars, collectVars, polyVars, inputVars,
      purgeVars, cleanVars,
      facVars,
      buildVars,
      funcVars,
      liveVars,
      paramVars,
      bakeVars, built,
      interactive, toStdin,
      readsStdin, stdin, limiter, spc, cur, orphans, exitcode, makes, mres,
      merr, blocked, acquired, released>>

\* The return codes handed to a ShellResult.
ResultCodes == 0..MaxCode

\* The returncode getter on a ShellResult whose _returncode is v.
Getter(v) ==
    IF v = None THEN [raised |-> TRUE, value |-> None, stored |-> v]
    ELSE [raised |-> FALSE, value |-> v, stored |-> v]

\* A setter that stores whatever it is given.
SetterOverwrites(v, code) == [raised |-> FALSE, value |-> None, stored |-> code]

\* The returncode setter on a ShellResult whose _returncode is v.
Setter(v, code) ==
    IF v # None THEN [raised |-> TRUE, value |-> None, stored |-> v]
    ELSE [raised |-> FALSE, value |-> None, stored |-> code]

\* A caller reads result.returncode.
ReadReturncode(s) ==
    LET g == Getter(returncode[s])
    IN  /\ rop' = [op |-> "get", obj |-> s, arg |-> None,
                   before |-> returncode[s], raised |-> g.raised,
                   value |-> g.value]
        /\ returncode' = [returncode EXCEPT ![s] = g.stored]
        /\ UNCHANGED notResult

\* A caller assigns result.returncode = code.
AssignReturncode(s, code) ==
    LET g == Setter(returncode[s], code)
    IN  /\ rop' = [op |-> "set", obj |-> s, arg |-> code,
                   before |-> returncode[s], raised |-> g.raised,
                   value |-> g.value]
        /\ returncode' = [returncode EXCEPT ![s] = g.stored]
        /\ UNCHANGED notResult

InitResult ==
    /\ EngineIdle
    /\ ShellIdle
    /\ FanIdle
    /\ UnitsIdle

NextResult ==
    \/ \E s \in Shells : ReadReturncode(s)
    \/ \E s \in Shells, code \in ResultCodes : AssignReturncode(s, code)

SpecResult == InitResult /\ [][NextResult]_vars

\* C14: a ShellResult's return code is assigned at most once: reading it
\* before any assignment raises, a first assignment stores the code, and a
\* second assignment raises and leaves the first code in place.
C14_ReturncodeSetOnce ==
    /\ rop.op = "get" =>
          /\ rop.raised <=> rop.before = None
          /\ ~rop.raised => rop.value = rop.before
          /\ returncode[rop.obj] = rop.before
    /\ rop.op = "set" =>
          IF rop.before = None
          THEN ~rop.raised /\ returncode[rop.obj] = rop.arg
          ELSE rop.raised /\ returncode[rop.obj] = rop.before

\* A second assignment, of another code than the first, has been refused.
C14_Witness ==
    /\ rop.op = "set"
    /\ rop.raised
    /\ rop.arg # returncode[rop.obj]
    /\ returncode[rop.obj] \in ResultCodes

\* ------------------------------------ artifacts.py, files.py: PolyArtifact

notPoly ==
    <<fsVars, resolveVars, probe, shellVars, fanVars, collectVars, resultVars,
      inputVars, purgeVars, cleanVars,
      facVars,
      buildVars,
      funcVars,
      liveVars,
      paramVars,
      bakeVars>>

Paths == 1..NumPaths

\* FileArtifact(path), NullArtifact() and PolyArtifact(args) as objects.
FileArtifact(p) ==
    [type |-> "file", path |-> p, args |-> <<>>, artifacts |-> <<>>]

NullArtifact == [type |-> "null", path |-> 0, args |-> <<>>, artifacts |-> <<>>]

\* a == b on two artifact objects: no artifact class defines __eq__, so
\* Python compares their identities.
ArtifactEq(a, b) == a = b

\* Artifact.is_null of a leaf.
IsNull(a) == a.type = "null"

\* PolyArtifact._find_leaves: nested PolyArtifacts contribute their
\* _artifacts, null artifacts are dropped.
RECURSIVE FindLeaves(_, _)
FindLeaves(h, L) ==
    IF L = <<>> THEN <<>>
    ELSE LET a == h[Head(L)]
         IN  (IF a.type = "poly" THEN FindLeaves(h, a.artifacts)
              ELSE IF ~IsNull(a) THEN <<Head(L)>>
              ELSE <<>>) \o FindLeaves(h, Tail(L))

\* util.uniq: the elements in first-seen order, an element equal to an
\* earlier one left out.
RECURSIVE UniqFrom(_, _)
UniqFrom(xs, i) ==
    IF i > Len(xs) THEN <<>>
    ELSE (IF \E j \in 1..(i - 1) : ArtifactEq(xs[j], xs[i]) THEN <<>>
          ELSE <<xs[i]>>) \o UniqFrom(xs, i + 1)

Uniq(xs) == UniqFrom(xs, 1)

\* PolyArtifact.__init__.
PolyArtifact(h, L) ==
    [type |-> "poly", path |-> 0, args |-> L,
     artifacts |-> Uniq(FindLeaves(h, L))]

\* The argument lists a PolyArtifact can be built from: the objects that
\* exist, in any order, with repeats.
ArgLists == UNION {[1..n -> 1..Len(heap)] : n \in 0..MaxArgs}

NewFileArtifact(p) ==
    /\ Len(heap) < MaxObjects
    /\ heap' = Append(heap, FileArtifact(p))
    /\ UNCHANGED notPoly

NewNullArtifact ==
    /\ Len(heap) < MaxObjects
    /\ heap' = Append(heap, NullArtifact)
    /\ UNCHANGED notPoly

NewPolyArtifact(L) ==
    /\ Len(heap) < MaxObjects
    /\ heap' = Append(heap, PolyArtifact(heap, L))
    /\ UNCHANGED notPoly

InitPoly ==
    /\ EngineIdle
    /\ ShellIdle
    /\ FanIdle
    /\ UnitsIdle

NextPoly ==
    \/ \E p \in Paths : NewFileArtifact(p)
    \/ NewNullArtifact
    \/ \E L \in ArgLists : NewPolyArtifact(L)

SpecPoly == InitPoly /\ [][NextPoly]_vars

\* What an artifact object stands for.
Content(h, i) == [type |-> h[i].type, path |-> h[i].path]

Contents(h, xs) == [k \in 1..Len(xs) |-> Content(h, xs[k])]

\* The transitive leaves of an argument list, through the argument lists
\* of the nested PolyArtifacts; a null artifact is no leaf.
RECURSIVE TransitiveLeaves(_, _)
TransitiveLeaves(h, L) ==
    IF L = <<>> THEN <<>>
    ELSE LET a == h[Head(L)]
         IN  (IF a.type = "poly" THEN TransitiveLeaves(h, a.args)
              ELSE IF a.type = "null" THEN <<>>
              ELSE <<Head(L)>>) \o TransitiveLeaves(h, Tail(L))

\* A sequence with every element that repeats an earlier one left out.
RECURSIVE FirstOccurrences(_, _)
FirstOccurrences(cs, i) ==
    IF i > Len(cs) THEN <<>>
    ELSE (IF \E j \in 1..(i - 1) : cs[j] = cs[i] THEN <<>>
          ELSE <<cs[i]>>) \o FirstOccurrences(cs, i + 1)

\* C16: the leaves of every PolyArtifact are the transitive leaves of its
\* argument list in first-seen order, one per content (two FileArtifacts of
\* one path are duplicates), and none of them is a PolyArtifact.
C16_LeavesAreDedupedFlattening ==
    \A i \in 1..Len(heap) :
        heap[i].type = "poly" =>
            /\ Contents(heap, heap[i].artifacts) =
                   FirstOccurrences(
                       Contents(heap, TransitiveLeaves(heap, heap[i].args)), 1)
            /\ \A k \in 1..Len(heap[i].artifacts) :
                   heap[heap[i].artifacts[k]].type # "poly"

\* --------------------------- shell.py, recipes.py: the {input} parameter

notInput ==
    <<fsVars, resolveVars, probe, shellVars, fanVars, collectVars, resultVars,
      polyVars, purgeVars, cleanVars,
      facVars,
      buildVars,
      funcVars,
      liveVars,
      paramVars,
      bakeVars>>

Inputs == 1..NumInputs

\* input=[...]: distinct recipes in the order they are written.
Declarations == UNION {Orders(S) : S \in SUBSET Inputs}

\* PolyRecipe._find_output: the outputs of the recipes, in their order
\* (the output of recipe i is the file i; none is null).
FindOutput(recipes) == recipes

\* set(...) of artifact objects and its iteration: the objects hash by
\* identity, so they come out in the order of their addresses, which is
\* this process's layout and not the order they went in.
SetIteration(xs) ==
    SelectSeq(layout, LAMBDA x : \E k \in 1..Len(xs) : xs[k] = x)

\* PolyRecipe.output: PolyArtifact(set(self._find_output())).
PolyRecipeOutput(recipes) == Uniq(SetIteration(FindOutput(recipes)))

\* ShellRecipe.input: PolyArtifact([Recipe.input, *self._inputs]) with
\* Recipe.input = PolyRecipe(self.dependencies).output and no other inputs.
ShellInput == Uniq(PolyRecipeOutput(declared))

\* PolyArtifact.to_params, digest_param: the leaves' paths in order.
ToParams(leaves) == leaves

\* ShellRecipe._interpolate_cmd replaces {input}.
InterpolateCmd ==
    /\ ipc = "new"
    /\ inputParam' = ToParams(ShellInput)
    /\ ipc' = "interpolated"
    /\ UNCHANGED <<declared, layout, catOut, runs>>
    /\ UNCHANGED notInput

\* The command runs: cat writes the files' words in the order of its
\* arguments (file i holds word i).
CatRuns ==
    /\ ipc = "interpolated"
    /\ catOut' = inputParam
    /\ ipc' = "made"
    /\ UNCHANGED <<declared, layout, inputParam, runs>>
    /\ UNCHANGED notInput

\* The build is run again in a new process: the same build file, new
\* objects at new addresses.
NewProcess ==
    /\ ipc = "made"
    /\ runs < MaxRuns
    /\ runs' = runs + 1
    /\ layout' \in Orders(Inputs)
    /\ inputParam' = <<>>
    /\ catOut' = <<>>
    /\ ipc' = "new"
    /\ UNCHANGED declared
    /\ UNCHANGED notInput

InitInput ==
    /\ FactoryIdle
    /\ BuildIdle
    /\ FuncIdle
    /\ LiveIdle
    /\ ParamIdle
    /\ BakeIdle
    /\ EngineIdle
    /\ ShellIdle
    /\ FanIdle
    /\ CollectIdle
    /\ rop = NoOp
    /\ heap = <<>>
    /\ PurgeIdle
    /\ CleanIdle
    /\ declared \in Declarations
    /\ layout \in Orders(Inputs)
    /\ inputParam = <<>>
    /\ catOut = <<>>
    /\ ipc = "new"
    /\ runs = 1

NextInput ==
    \/ InterpolateCmd
    \/ CatRuns
    \/ NewProcess

SpecInput == InitInput /\ [][NextInput]_vars

\* C17: on every run {input} lists the outputs of the declared
\* dependencies in declaration order, so `cat {input}` writes their words
\* in that order (Hello before World for input=[hello, world]).
C17_InputInDeclarationOrder ==
    /\ ipc \in {"interpolated", "made"} => inputParam = declared
    /\ ipc = "made" => catOut = declared

\* ------------------------------------------------------ recipes.py: purge

notPurge ==
    <<deps, kind, debug, now, resolveVars, probe, shellVars, fanVars,
      collectVars, resultVars, polyVars, inputVars, cleanVars,
      facVars,
      buildVars,
      funcVars,
      liveVars,
      paramVars,
      bakeVars>>

PurgeTask(r, parent) ==
    [recipe |-> r, parent |-> parent, pc |-> "start", err |-> "none"]

PurgeIds == 1..Len(ptasks)

\* The purge() calls gathered by call t.
Children(t) == {c \in PurgeIds : ptasks[c].parent = t}

\* A purge that looks at nothing before it goes on.
PurgeUnguarded(r) == TRUE

\* Recipe.purge's condition: this output or the output of a dependency
\* exists.
PurgeGuard(r) ==
    OutputExists(r) \/ \E d \in Dependencies(r) : OutputExists(d)

NotRemoved(e) == [raised |-> e # "none", err |-> e, removed |-> FALSE]

\* path.unlink() / shutil.rmtree(path): raises for a path that is absent,
\* and when the system denies the removal.
Unlink(r, denied) ==
    IF ~exists[r] THEN NotRemoved("FileNotFoundError")
    ELSE IF denied THEN NotRemoved("PermissionError")
    ELSE [raised |-> FALSE, err |-> "none", removed |-> TRUE]

\* FileArtifact.clean (NullArtifact.clean does nothing).
ArtifactClean(r, denied) ==
    IF kind[r] = "file" /\ exists[r] THEN Unlink(r, denied)
    ELSE NotRemoved("none")

\* A clean that removes without looking first.
CleanUnchecked(r, denied) == Unlink(r, denied)

\* Recipe.clean.
RecipeClean(r, denied) ==
    IF OutputExists(r) THEN ArtifactClean(r, denied) ELSE NotRemoved("none")

\* "await self.clean()" at the end of purge call t.
CleanSelf(t, denied) ==
    LET r == ptasks[t].recipe
        c == RecipeClean(r, denied)
    IN  /\ ptasks' = [ptasks EXCEPT
                         ![t].pc = IF c.raised THEN "raised" ELSE "done",
                         ![t].err = c.err]
        /\ exists' = [exists EXCEPT ![r] = exists[r] /\ ~c.removed]
        /\ mtime' = [mtime EXCEPT ![r] = IF c.removed THEN 0 ELSE mtime[r]]
        /\ unlinks' = [unlinks EXCEPT
                          ![r] = unlinks[r] + (IF c.removed THEN 1 ELSE 0)]

\* purge call t starts: the condition, then the gather of the dependencies'
\* purges (with no dependency the gather is over at once).
PurgeStart(t, denied) ==
    /\ ptasks[t].pc = "start"
    /\ LET r == ptasks[t].recipe
           ds == SortedSeq(Dependencies(r))
       IN  IF ~PurgeGuard(r)
           THEN /\ ptasks' = [ptasks EXCEPT ![t].pc = "done"]
                /\ UNCHANGED <<exists, mtime, unlinks>>
           ELSE IF ds = <<>>
           THEN CleanSelf(t, denied)
           ELSE /\ ptasks' = [ptasks EXCEPT ![t].pc = "gather"]
                              \o [k \in 1..Len(ds) |-> PurgeTask(ds[k], t)]
                /\ UNCHANGED <<exists, mtime, unlinks>>
    /\ UNCHANGED exists0
    /\ UNCHANGED notPurge

\* A gather that hands control back before the purges it started are over.
GatherNotAwaited(t) == TRUE

\* "await asyncio.gather(...)" of call t is over: every purge it started
\* has returned.
GatherFinished(t) == \A c \in Children(t) : ptasks[c].pc = "done"

\* One of the gathered purges has raised: the gather raises, and so does
\* purge, without cleaning.
PurgeGatherRaises(t) ==
    /\ ptasks[t].pc = "gather"
    /\ \E c \in Children(t) :
          /\ ptasks[c].pc = "raised"
          /\ ptasks' = [ptasks EXCEPT ![t].pc = "raised",
                                      ![t].err = ptasks[c].err]
    /\ UNCHANGED <<exists, mtime, unlinks, exists0>>
    /\ UNCHANGED notPurge

\* The gather of call t is over: purge cleans its own output and returns.
PurgeGatherDone(t, denied) ==
    /\ ptasks[t].pc = "gather"
    /\ GatherFinished(t)
    /\ CleanSelf(t, denied)
    /\ UNCHANGED exists0
    /\ UNCHANGED notPurge

\* The graphs purged: the graphs resolved, and one where the recipe reached
\* along two paths has a dependency of its own.
PurgeGraphs == Graphs \cup {<<{2, 3}, {4}, {2}, {}>>}

InitPurge ==
    /\ FactoryIdle
    /\ BuildIdle
    /\ FuncIdle
    /\ LiveIdle
    /\ ParamIdle
    /\ BakeIdle
    /\ ShellIdle
    /\ FanIdle
    /\ CollectIdle
    /\ rop = NoOp
    /\ heap = <<>>
    /\ InputIdle
    /\ CleanIdle
    /\ probe = NoProbe
    /\ deps \in {GraphDeps(g) : g \in PurgeGraphs}
    /\ kind \in [Recipes -> {"file", "null"}]
    /\ debug = FALSE
    /\ now = 1
    /\ exists \in [Recipes -> BOOLEAN]
    /\ \A r \in Recipes : kind[r] = "null" => ~exists[r]
    /\ mtime = [r \in Recipes |-> IF exists[r] THEN 1 ELSE 0]
    /\ lock = [r \in Recipes |-> NoTask]
    /\ lockq = [r \in Recipes |-> <<>>]
    /\ tasks = <<>>
    /\ makeCount = [r \in Recipes |-> 0]
    /\ ptasks = <<PurgeTask(1, NoTask)>>
    /\ unlinks = [r \in Recipes |-> 0]
    /\ exists0 = exists

NextPurge ==
    \/ \E t \in PurgeIds, denied \in BOOLEAN : PurgeStart(t, denied)
    \/ \E t \in PurgeIds, denied \in BOOLEAN : PurgeGatherDone(t, denied)
    \/ \E t \in PurgeIds : PurgeGatherRaises(t)

SpecPurge == InitPurge /\ [][NextPurge]_vars

\* The recipes reached from r through dependencies, r included.
RECURSIVE ClosureFrom(_, _)
ClosureFrom(S, n) ==
    IF n = 0 THEN S
    ELSE ClosureFrom(S \cup UNION {Dependencies(r) : r \in S}, n - 1)

Subtree(r) == ClosureFrom({r}, NumRecipes)

\* C18: once purge(R) has returned, neither R nor any recipe R depends on,
\* directly or not, has an existing output.
C18_PurgeLeavesNoOutput ==
    ptasks[1].pc = "done" => \A r \in Subtree(1) : ~OutputExists(r)

PurgesOf(r) == {t \in PurgeIds : ptasks[t].recipe = r}

\* C38: the output of a recipe that purge reaches along two dependency
\* paths is removed at most once, and none of the purge() calls made on it
\* raises for the output being gone.
C38_SharedOutputDeletedOnce ==
    \A r \in Recipes :
        Cardinality(PurgesOf(r)) >= 2 =>
            /\ unlinks[r] <= 1
            /\ \A t \in PurgesOf(r) : ptasks[t].err # "FileNotFoundError"

\* Two purge() calls on one recipe had both found its output present and
\* were both waiting for their gather; one has since removed the output
\* and returned, the other has then found it absent and returned.
C38_Witness ==
    \E r \in Recipes :
        /\ Dependencies(r) # {}
        /\ exists0[r]
        /\ unlinks[r] = 1
        /\ Cardinality(PurgesOf(r)) >= 2
        /\ \A t \in PurgesOf(r) :
              ptasks[t].pc = "done" /\ Children(t) # {}

\* ----------------------------- recipes.py, files.py, artifacts.py: clean

notClean ==
    <<deps, kind, debug, now, resolveVars, probe, shellVars, fanVars,
      collectVars, resultVars, polyVars, inputVars, purgeVars,
      facVars,
      buildVars,
      funcVars,
      liveVars,
      paramVars,
      bakeVars>>

\* The directory a path lies in (0 for the top of the tree).
Parent(p) == p \div 2

\* Path p is q or lies somewhere inside q.
RECURSIVE Inside(_, _)
Inside(p, q) == IF p = 0 THEN FALSE ELSE p = q \/ Inside(Parent(p), q)

Under(q) == {p \in Nodes : Inside(p, q)}

\* The file systems: what exists lies in a directory.
FileSystems ==
    {f \in [Nodes -> {"absent", "file", "dir"}] :
        \A p \in Nodes :
            (f[p] # "absent" /\ Parent(p) # 0) => f[Parent(p)] = "dir"}

\* FileRecipe.path / ShellRecipe's output=...: the path recipe r writes.
OutPath(r) == r

Cleaned(f, e) == [fs |-> f, err |-> e]

\* Path.unlink().
PathUnlink(f, p) ==
    IF f[p] = "absent" THEN Cleaned(f, "FileNotFoundError")
    ELSE IF f[p] = "dir" THEN Cleaned(f, "IsADirectoryError")
    ELSE Cleaned([f EXCEPT ![p] = "absent"], "none")

\* shutil.rmtree(path): removes the directory and what is in it.
Rmtree(f, p) ==
    IF f[p] = "absent" THEN Cleaned(f, "FileNotFoundError")
    ELSE IF f[p] # "dir" THEN Cleaned(f, "NotADirectoryError")
    ELSE Cleaned([x \in Nodes |-> IF x \in Under(p) THEN "absent" ELSE f[x]],
                 "none")

\* A clean that does not look first.
ArtifactCleanUnguarded(f, p) == TRUE

\* FileArtifact.clean: if self.exists.
ArtifactCleanGuard(f, p) == f[p] # "absent"

\* FileArtifact.clean.
FileArtifactClean(f, p) ==
    IF ArtifactCleanGuard(f, p)
    THEN IF f[p] = "dir" THEN Rmtree(f, p) ELSE PathUnlink(f, p)
    ELSE Cleaned(f, "none")

\* PolyRecipe._find_output, PolyArtifact._find_leaves: the paths of the
\* file outputs of a recipe (a PolyRecipe's are its members').
RECURSIVE LeafPaths(_)
LeafPaths(r) ==
    IF kind[r] = "file" THEN {OutPath(r)}
    ELSE IF kind[r] = "poly" THEN UNION {LeafPaths(m) : m \in deps[r]}
    ELSE {}

\* output.exists on file system f: FileArtifact.exists, NullArtifact.exists,
\* PolyArtifact.exists.
OutputExistsIn(f, r) ==
    /\ kind[r] # "null"
    /\ \A p \in LeafPaths(r) : f[p] # "absent"

\* PolyArtifact.clean: the gather runs the clean of every leaf, in the
\* order o, and raises the first error.
RECURSIVE LeavesClean(_, _, _)
LeavesClean(c, o, i) ==
    IF i > Len(o) THEN c
    ELSE LET n == FileArtifactClean(c.fs, o[i])
         IN  LeavesClean(
                 Cleaned(n.fs, IF c.err = "none" THEN n.err ELSE c.err),
                 o, i + 1)

\* A clean that does not look first.
RecipeCleanUnguarded(r) == TRUE

\* Recipe.clean: if self.output.exists.
RecipeCleanGuard(r) == OutputExistsIn(fsys, r)

\* exists and mtime of the recipes' outputs on the file system f.
Synced(f) ==
    /\ exists' = [r \in Recipes |-> kind[r] = "file" /\ f[OutPath(r)] # "absent"]
    /\ mtime' = [r \in Recipes |->
                    IF kind[r] = "file" /\ f[OutPath(r)] # "absent"
                    THEN mtime[r] ELSE 0]

\* await recipe.clean().
Clean(r, o) ==
    /\ o \in Orders(LeafPaths(r))
    /\ LET c == IF RecipeCleanGuard(r)
                THEN LeavesClean(Cleaned(fsys, "none"), o, 1)
                ELSE Cleaned(fsys, "none")
       IN  /\ fsys' = c.fs
           /\ cop' = [op |-> "recipe", target |-> r, before |-> fsys,
                      err |-> c.err]
           /\ Synced(c.fs)
    /\ UNCHANGED notClean

\* await FileArtifact(p).clean().
CleanArtifact(p) ==
    /\ LET c == FileArtifactClean(fsys, p)
       IN  /\ fsys' = c.fs
           /\ cop' = [op |-> "artifact", target |-> p, before |-> fsys,
                      err |-> c.err]
           /\ Synced(c.fs)
    /\ UNCHANGED notClean

InitClean ==
    /\ FactoryIdle
    /\ BuildIdle
    /\ FuncIdle
    /\ LiveIdle
    /\ ParamIdle
    /\ BakeIdle
    /\ ShellIdle
    /\ FanIdle
    /\ CollectIdle
    /\ rop = NoOp
    /\ heap = <<>>
    /\ InputIdle
    /\ PurgeIdle
    /\ probe = NoProbe
    /\ deps \in {GraphDeps(g) : g \in Graphs}
    /\ kind \in [Recipes -> {"file", "null", "poly"}]
    /\ \A r \in Recipes : kind[r] = "poly" => deps[r] # {}
    /\ \A r \in Recipes : kind[r] = "null" => deps[r] = {}
    /\ debug = FALSE
    /\ now = 1
    /\ fsys \in FileSystems
    /\ exists = [r \in Recipes |-> kind[r] = "file" /\ fsys[OutPath(r)] # "absent"]
    /\ mtime = [r \in Recipes |-> IF exists[r] THEN 1 ELSE 0]
    /\ lock = [r \in Recipes |-> NoTask]
    /\ lockq = [r \in Recipes |-> <<>>]
    /\ tasks = <<>>
    /\ makeCount = [r \in Recipes |-> 0]
    /\ cop = NoClean

NextClean ==
    \/ \E r \in Recipes : \E o \in Orders(LeafPaths(r)) : Clean(r, o)
    \/ \E p \in Nodes : CleanArtifact(p)

SpecClean == InitClean /\ [][NextClean]_vars

\* The paths of recipe r's output and what lies inside them.
OutputPaths(r) == UNION {Under(q) : q \in LeafPaths(r)}

\* C21 as stated: clean(R) removes R's output if it exists and leaves the
\* existence of every dependency's output and of every other path as it
\* was; when R's output does not exist it changes nothing and raises
\* nothing.
C21_CleanLeavesDependencies ==
    cop.op = "recipe" =>
        LET r == cop.target
            b == cop.before
        IN  /\ (OutputExistsIn(b, r) /\ cop.err = "none") =>
                   \A p \in LeafPaths(r) : fsys[p] = "absent"
            /\ \A d \in deps[r] : OutputExistsIn(fsys, d) = OutputExistsIn(b, d)
            /\ \A p \in Nodes \ OutputPaths(r) :
                   (fsys[p] = "absent") = (b[p] = "absent")
            /\ ~OutputExistsIn(b, r) => (fsys = b /\ cop.err = "none")

\* C21, amended: clean(R) removes R's output, with what lies inside it, if
\* it exists, and leaves every path outside R's output as it was (the
\* output of a dependency too, unless it is part of R's output); when R's
\* output does not exist it changes nothing and raises nothing.
C21_CleanRemovesOnlyOutput ==
    cop.op = "recipe" =>
        LET r == cop.target
            b == cop.before
        IN  /\ (OutputExistsIn(b, r) /\ cop.err = "none") =>
                   \A p \in OutputPaths(r) : fsys[p] = "absent"
            /\ \A p \in Nodes \ OutputPaths(r) : fsys[p] = b[p]
            /\ \A d \in deps[r] :
                   LeafPaths(d) \cap OutputPaths(r) = {} =>
                       OutputExistsIn(fsys, d) = OutputExistsIn(b, d)
            /\ ~OutputExistsIn(b, r) => (fsys = b /\ cop.err = "none")
            /\ cop.err = "none"

\* A recipe whose output is a directory with something in it has been
\* cleaned, and the output of a dependency, outside the directory, is
\* still there.
C21_Witness ==
    /\ cop.op = "recipe"
    /\ cop.err = "none"
    /\ kind[cop.target] = "file"
    /\ cop.before[OutPath(cop.target)] = "dir"
    /\ fsys[OutPath(cop.target)] = "absent"
    /\ \E x \in Under(OutPath(cop.target)) \ {OutPath(cop.target)} :
          cop.before[x] # "absent"
    /\ \E d \in deps[cop.target] :
          /\ kind[d] = "file"
          /\ OutPath(d) \notin OutputPaths(cop.target)
          /\ fsys[OutPath(d)] # "absent"

\* C22: FileArtifact.clean on an absent path changes nothing and raises
\* nothing; on a file it removes that path and no other; on a directory it
\* removes the directory and all that is in it and nothing else;
\* afterwards the path does not exist, so that a second clean is the first
\* case again.
C22_FileArtifactClean ==
    cop.op = "artifact" =>
        LET p == cop.target
            b == cop.before
        IN  /\ b[p] = "absent" => (fsys = b /\ cop.err = "none")
            /\ (b[p] = "file" /\ cop.err = "none") =>
                   fsys = [b EXCEPT ![p] = "absent"]
            /\ (b[p] = "dir" /\ cop.err = "none") =>
                   fsys = [x \in Nodes |->
                              IF x \in Under(p) THEN "absent" ELSE b[x]]
            /\ cop.err = "none" => fsys[p] = "absent"
            /\ cop.err = "none"

\* A directory with a directory and a file in it has been removed by
\* FileArtifact.clean while a path next to it stayed.
C22_Witness ==
    /\ cop.op = "artifact"
    /\ cop.err = "none"
    /\ cop.before[cop.target] = "dir"
    /\ \E x, y \in Under(cop.target) \ {cop.target} :
          cop.before[x] = "dir" /\ cop.before[y] = "file"
    /\ \E z \in Nodes : fsys[z] # "absent"

\* --------------------- shell.py: ShellRecipe.is_done, resolved repeatedly
\* One shell recipe, Subject, with a file output or none (kind), is read,
\* resolved and made; the other recipes are the files it depends on. A
\* resolve or a make runs from its call to its return in one step.

Subject == 1

\* A recipe that is done by the ages of its files only.
IsDoneIgnoringReturncode(r, n1, n2) == IsDoneRead(r, n1, n2)

\* ShellRecipe.is_done: with no output file, the captured return code
\* decides; with one, Recipe.is_done.
ShellIsDoneRead(r, n1, n2) ==
    IF kind[r] = "null"
    THEN returncode[r] # None /\ returncode[r] \in SuccessCodes
    ELSE IsDoneRead(r, n1, n2)

\* A make that does not remember.
NeverHasReturncode(s) == FALSE

\* ShellResult.has_returncode.
HasReturncode(s) == returncode[s] # None

\* ShellRecipe.make from its call to its return; the command, if it runs,
\* ends with `code` and, told so by w, writes the output file.
MakeToEnd(s, code, w) ==
    /\ makes' = [makes EXCEPT ![s] = @ + 1]
    /\ IF HasReturncode(s)
       THEN /\ mres' = [mres EXCEPT ![s] =
                           IF returncode[s] \in SuccessCodes THEN "ok"
                           ELSE "raised"]
            /\ merr' = [merr EXCEPT ![s] =
                           IF returncode[s] \in SuccessCodes THEN NoError
                           ELSE FailedPreviously]
            /\ UNCHANGED <<returncode, acquired, released, exists, mtime>>
       ELSE /\ acquired' = [acquired EXCEPT ![s] = @ + 1]
            /\ released' = [released EXCEPT ![s] = @ + 1]
            /\ returncode' = [returncode EXCEPT ![s] = code]
            /\ mres' = [mres EXCEPT ![s] =
                           IF code \in SuccessCodes THEN "ok" ELSE "raised"]
            /\ merr' = [merr EXCEPT ![s] =
                           IF code \in SuccessCodes THEN NoError
                           ELSE ShellCommandFailed(code)]
            /\ IF w /\ kind[s] = "file"
               THEN /\ exists' = [exists EXCEPT ![s] = TRUE]
                    /\ mtime' = [mtime EXCEPT ![s] = now]
               ELSE UNCHANGED <<exists, mtime>>

\* The finished task of a resolve() call.
Resolved(s) == [NewTask(s, NoTask) EXCEPT !.pc = "done"]

\* await recipe.resolve() of a shell recipe: is_done, resolve_deps (a
\* dependency that is not done raises at assert_is_done), make; debug is
\* off, so resolve returns normally.
ShellResolve(s, code, w) ==
    /\ Len(tasks) < MaxMakes
    /\ tasks' = Append(tasks, Resolved(s))
    /\ probe' = NoProbe
    /\ IF ShellIsDoneRead(s, now, now) \/ \E d \in Dependencies(s) : ~IsDone(d)
       THEN UNCHANGED <<makes, mres, merr, returncode, acquired, released,
                        exists, mtime>>
       ELSE MakeToEnd(s, code, w)
    /\ UNCHANGED <<deps, kind, debug, now, lock, lockq, makeCount, built,
                   interactive, toStdin, readsStdin, stdin, limiter, spc, cur,
                   orphans, exitcode, blocked, fanVars, unitVars>>

\* await recipe.make(), called without resolve.
ShellMakeToEnd(s, code, w) ==
    /\ SumTo(makes, NumShells) < MaxMakes
    /\ probe' = NoProbe
    /\ MakeToEnd(s, code, w)
    /\ UNCHANGED <<deps, kind, debug, now, resolveVars, built, interactive,
                   toStdin, readsStdin, stdin, limiter, spc, cur, orphans,
                   exitcode, blocked, fanVars, unitVars>>

\* A caller reads a shell recipe's is_done.
ReadShellIsDone(s) ==
    /\ \E k \in 0..1 :
          probe' = [recipe |-> s, skew |-> k,
                    done |-> ShellIsDoneRead(s, now, now + k)]
    /\ UNCHANGED <<fsVars, notStale>>

InitDone ==
    /\ UnitsIdle
    /\ FanIdle
    /\ probe = NoProbe
    /\ deps \in {GraphDeps(g) : g \in Graphs}
    /\ Cardinality(deps[Subject]) = 1
    /\ kind \in [Recipes -> {"file", "null"}]
    /\ \A r \in Recipes \ {Subject} : kind[r] = "file"
    /\ debug = FALSE
    /\ now = 1
    /\ exists = [r \in Recipes |-> r # Subject]
    /\ mtime = [r \in Recipes |-> IF exists[r] THEN 1 ELSE 0]
    /\ lock = [r \in Recipes |-> NoTask]
    /\ lockq = [r \in Recipes |-> <<>>]
    /\ tasks = <<>>
    /\ makeCount = [r \in Recipes |-> 0]
    /\ ShellIdle

NextDone ==
    \/ \E code \in ExitCodes, w \in BOOLEAN : ShellResolve(Subject, code, w)
    \/ \E code \in ExitCodes, w \in BOOLEAN : ShellMakeToEnd(Subject, code, w)
    \/ ReadShellIsDone(Subject)
    \/ \E r \in deps[Subject] : Touch(r)
    \/ \E r \in deps[Subject] : FileClean(r)
    \/ StaleTick

SpecDone == InitDone /\ [][NextDone]_vars

\* C23: is_done of a shell recipe with no output file is true exactly when
\* its return code has been captured and is a success code, whatever the
\* ages and the existence of its inputs.
C23_DoneByReturncode ==
    (probe.recipe # 0 /\ kind[probe.recipe] = "null") =>
        (probe.done <=>
            (returncode[probe.recipe] # None
                /\ returncode[probe.recipe] \in SuccessCodes))

\* is_done was read as true for a shell recipe with no output file and an
\* input file that does not exist, and as false for one whose inputs all
\* exist.
C23_Witness ==
    /\ probe.recipe # 0
    /\ kind[probe.recipe] = "null"
    /\ deps[probe.recipe] # {}
    /\ IF probe.done THEN \E d \in deps[probe.recipe] : ~OutputExists(d)
       ELSE \A d \in deps[probe.recipe] : OutputExists(d)

\* The resolve() call that this step makes on shell recipe s.
ResolveCall(s) ==
    /\ Len(tasks') = Len(tasks) + 1
    /\ tasks'[Len(tasks')].recipe = s

NumTargets == 2
\* The most names one command line requests.
MaxTargets == 2

Names == 1..(NumRecipes + 1)

\* BuildEngine._get_targets.
GetTargets == 1..NumTargets

\* A lookup that takes every registered provider for a target.
IsRegistered(n) == n \in Recipes

\* "config.target not in self._get_targets()", negated.
IsTarget(n) == n \in GetTargets

\* The default target (0: none): build(default), @default.
Defaults == {0, 1}

Requests == {R \in SUBSET Names : Cardinality(R) <= MaxTargets}

\* BuildEngine.compile_targets raises for a name that is not a target.
CompileTargetsRaises(T) == \E n \in T : n \notin GetTargets

\* BuildEngine.resolve gathers the targets' resolve(): it raises the first
\* exception of a resolve(),
EngineResolveRaises ==
    \E t \in {u \in TaskIds : tasks[u].parent = NoTask} :
        tasks[t].pc = "done" /\ tasks[t].raised

\* or returns when all have returned.
EngineResolveReturns ==
    \A t \in {u \in TaskIds : tasks[u].parent = NoTask} :
        tasks[t].pc = "done" /\ ~tasks[t].raised

\* The resolve() calls made for the requested targets.
Roots == {t \in TaskIds : tasks[t].parent = NoTask}

RootTasks(R) == [i \in 1..Cardinality(R) |-> NewTask(SortedSeq(R)[i], NoTask)]

\* "except Exception" of bake.build: log FAIL and return; the script that
\* called build() ends and the process exits with status 0.
BuildFails(e) ==
    [bake EXCEPT !.pc = "done", !.status = "FAIL", !.err = e, !.exit = 0]

\* The except clauses of BuildEngine.__call__: log FAIL, then sys.exit(1).
CallFails(e) ==
    [bake EXCEPT !.pc = "done", !.status = "FAIL", !.err = e, !.exit = 1]

\* bake.build up to run_until_complete: no target and no default raises,
\* compile_targets may raise, the targets' resolve() calls are started.
Build(R, d) ==
    /\ bake.pc = "idle"
    /\ LET b == [bake EXCEPT !.entry = "bake", !.requested = R]
           T == IF R # {} THEN R ELSE {d}
       IN  IF (R = {} /\ d = 0) \/ CompileTargetsRaises(T)
           THEN /\ bake' = [b EXCEPT !.pc = "done", !.status = "FAIL",
                                     !.err = "BuildError", !.exit = 0]
                /\ UNCHANGED tasks
           ELSE /\ bake' = [b EXCEPT !.pc = "resolving", !.requested = T]
                /\ tasks' = RootTasks(T)
    /\ UNCHANGED <<fsVars, lock, lockq, makeCount, probe, shellVars, fanVars,
                   collectVars, resultVars, polyVars, inputVars, purgeVars,
                   cleanVars, paramVars,
                   liveVars, funcVars, buildVars, facVars>>

\* run_until_complete returns or raises in bake.build.
BuildEnd ==
    /\ bake.pc = "resolving"
    /\ bake.entry = "bake"
    /\ \/ /\ EngineResolveRaises
          /\ bake' = BuildFails("BuildError")
       \/ /\ EngineResolveReturns
          /\ bake' = [bake EXCEPT !.pc = "done", !.status = "OK", !.exit = 0]
    /\ UNCHANGED <<fsVars, resolveVars, probe, shellVars, fanVars,
                   collectVars, resultVars, polyVars, inputVars, purgeVars,
                   cleanVars, paramVars,
                   liveVars, funcVars, buildVars, facVars>>

\* BuildEngine.__call__ up to the resolution: _resolve_build takes the
\* default target when none is given, raises when there is none, and
\* raises for a name that is not a target.
Call(R, d) ==
    /\ bake.pc = "idle"
    /\ Cardinality(R) <= 1
    /\ LET b == [bake EXCEPT !.entry = "engine", !.requested = R]
           T == IF R # {} THEN R ELSE {d}
       IN  IF (R = {} /\ d = 0) \/ \E n \in T : ~IsTarget(n)
           THEN /\ bake' = [b EXCEPT !.pc = "done", !.status = "FAIL",
                                     !.err = "BuildError", !.exit = 1]
                /\ UNCHANGED tasks
           ELSE /\ bake' = [b EXCEPT !.pc = "resolving", !.requested = T]
                /\ tasks' = RootTasks(T)
    /\ UNCHANGED <<fsVars, lock, lockq, makeCount, probe, shellVars, fanVars,
                   collectVars, resultVars, polyVars, inputVars, purgeVars,
                   cleanVars, paramVars,
                   liveVars, funcVars, buildVars, facVars>>

\* _resolve_build returns or raises in BuildEngine.__call__.
CallEnd ==
    /\ bake.pc = "resolving"
    /\ bake.entry = "engine"
    /\ \/ /\ \E t \in Roots : tasks[t].pc = "done" /\ tasks[t].raised
          /\ bake' = CallFails("BuildError")
       \/ /\ \A t \in Roots : tasks[t].pc = "done" /\ ~tasks[t].raised
          /\ bake' = [bake EXCEPT !.pc = "done", !.status = "OK", !.exit = 0]
    /\ UNCHANGED <<fsVars, resolveVars, probe, shellVars, fanVars,
                   collectVars, resultVars, polyVars, inputVars, purgeVars,
                   cleanVars, paramVars,
                   liveVars, funcVars, buildVars, facVars>>

\* The process is alive: the event loop runs the tasks.
Running == bake.pc = "resolving"

InitBake ==
    /\ FactoryIdle
    /\ BuildIdle
    /\ FuncIdle
    /\ CollectIdle /\ rop = NoOp /\ heap = <<>> /\ InputIdle /\ PurgeIdle
    /\ CleanIdle
    /\ BakeIdle
    /\ ParamIdle
    /\ LiveIdle
    /\ ShellIdle
    /\ FanIdle
    /\ probe = NoProbe
    /\ deps \in {GraphDeps(g) : g \in Graphs}
    /\ kind = [r \in Recipes |-> "file"]
    /\ debug \in BOOLEAN
    /\ now = 1
    /\ exists = [r \in Recipes |-> FALSE]
    /\ mtime = [r \in Recipes |-> 0]
    /\ lock = [r \in Recipes |-> NoTask]
    /\ lockq = [r \in Recipes |-> <<>>]
    /\ tasks = <<>>
    /\ makeCount = [r \in Recipes |-> 0]

NextBake ==
    \/ \E R \in Requests, d \in Defaults : Build(R, d)
    \/ BuildEnd
    \/ \E R \in Requests, d \in Defaults : Call(R, d)
    \/ CallEnd
    \/ Running /\ \E t \in TaskIds : StartResolve(t)
    \/ Running /\ \E t \in TaskIds : AcquireLock(t)
    \/ Running /\ \E t \in TaskIds : GatherDone(t)
    \/ Running /\ \E t \in TaskIds : MakeWrite(t)
    \/ Running /\ \E t \in TaskIds : MakeReturn(t)
    \/ Running /\ \E t \in TaskIds : MakeRaise(t)

SpecBake == InitBake /\ [][NextBake]_vars

\* A requested target whose resolve() has ended without making it done.
FailedTargets ==
    {t \in Roots : tasks[t].pc = "done" /\ ~IsDone(tasks[t].recipe)}

\* C25: when a requested target has failed to resolve, the invocation
\* ends with the status FAIL and a non-zero exit status, and the status is
\* OK only when every requested target has been resolved to done.
C25_FailMeansNonZeroExit ==
    bake.pc = "done" =>
        /\ FailedTargets # {} => (bake.status = "FAIL" /\ bake.exit # 0)
        /\ bake.status = "OK" =>
              \A t \in Roots : tasks[t].pc = "done" /\ IsDone(tasks[t].recipe)

\* The request that an invocation was started with is one the engine
\* must reject.
Rejectable(R, d) ==
    \/ R = {} /\ d = 0
    \/ \E n \in R : n \notin Recipes
    \/ \E n \in R : n \in Recipes /\ n \notin GetTargets

\* C26: a request for an unknown name or for a registered provider that
\* is not a target, and a request for nothing when there is no default,
\* fail with a build error before any recipe's work runs and without
\* creating or deleting an artifact.
C26_RejectedBeforeAnyWork ==
    [][\A R \in Requests, d \in Defaults :
          (Rejectable(R, d) /\ (Build(R, d) \/ Call(R, d))) =>
              /\ bake'.status = "FAIL"
              /\ bake'.err = "BuildError"
              /\ bake'.pc = "done"
              /\ tasks' = <<>>
              /\ makeCount' = makeCount
              /\ exists' = exists
              /\ mtime' = mtime]_vars

\* An invocation has been rejected for a provider that is not a target,
\* and nothing has run.
C26_Witness ==
    /\ bake.pc = "done"
    /\ bake.err = "BuildError"
    /\ \E n \in bake.requested : n \in Recipes /\ n \notin GetTargets
    /\ tasks = <<>>

\* ------------------------------ params.py, util.py: digest_param, digest_env
\* A Python value: an int, a str, a Path, a list, a range or an artifact
\* object (the index of an object of ParamHeap).
IntVal(n) == [t |-> "int", n |-> n, s |-> "", items |-> <<>>]
StrVal(x) == [t |-> "str", n |-> 0, s |-> x, items |-> <<>>]
PathVal(p) == [t |-> "path", n |-> p, s |-> "", items |-> <<>>]
ListVal(xs) == [t |-> "list", n |-> 0, s |-> "", items |-> xs]
RangeVal(n) == [t |-> "range", n |-> n, s |-> "", items |-> <<>>]
ArtVal(i) == [t |-> "artifact", n |-> i, s |-> "", items |-> <<>>]

\* ValueArtifact(v).
ValueArtifact(v) ==
    [type |-> "value", path |-> 0, args |-> <<>>, artifacts |-> <<>>,
     value |-> v]

\* The artifact objects at hand: a FileArtifact per path, a NullArtifact,
\* a ValueArtifact, and the PolyArtifact of the null and the files, last
\* path first.
ParamHeap ==
    LET files == [p \in 1..NumPaths |-> FileArtifact(p)]
        base == files \o <<NullArtifact, ValueArtifact(IntVal(1000))>>
    IN  base \o <<PolyArtifact(base,
                     <<NumPaths + 1>> \o [i \in 1..NumPaths |-> NumPaths + 1 - i])>>

\* list(range(n)).
RangeItems(n) == [i \in 1..n |-> IntVal(i - 1)]

\* A separator-joined string.
RECURSIVE Join(_, _)
Join(xs, sep) ==
    IF xs = <<>> THEN ""
    ELSE IF Len(xs) = 1 THEN xs[1]
    ELSE xs[1] \o sep \o Join(Tail(xs), sep)

\* str(value); a Path is printed as its file name, a list and a range by
\* their repr.
RECURSIVE Str(_)
Str(v) ==
    IF v.t = "int" THEN ToString(v.n)
    ELSE IF v.t = "str" THEN v.s
    ELSE IF v.t = "path" THEN "/f" \o ToString(v.n)
    ELSE IF v.t = "range" THEN "range(0, " \o ToString(v.n) \o ")"
    ELSE IF v.t = "artifact" THEN "<artifact>"
    ELSE "[" \o Join([i \in 1..Len(v.items) |-> Str(v.items[i])], ", ") \o "]"

\* An is_iterable that knows no iterable.
NothingIterable(v) == FALSE

\* util.is_iterable: list, tuple, range, generator.
IsIterable(v) == v.t \in {"list", "range"}

\* list(value) of an iterable.
Items(v) == IF v.t = "range" THEN RangeItems(v.n) ELSE v.items

\* artifact.to_params().
RECURSIVE ArtifactToParams(_, _)
ArtifactToParams(h, i) ==
    LET a == h[i]
        F[k \in 0..Len(a.artifacts)] ==
            IF k = 0 THEN <<>>
            ELSE F[k - 1] \o ArtifactToParams(h, a.artifacts[k])
    IN  IF a.type = "file" THEN <<PathVal(a.path)>>
        ELSE IF a.type = "value" THEN <<a.value>>
        ELSE IF a.type = "poly" THEN F[Len(a.artifacts)]
        ELSE <<>>

\* params.digest_param(value), cwd None.
RECURSIVE DigestParam(_, _)
DigestParam(h, v) ==
    IF IsIterable(v)
    THEN LET xs == Items(v)
             F[k \in 0..Len(xs)] ==
                 IF k = 0 THEN <<>> ELSE F[k - 1] \o DigestParam(h, xs[k])
         IN  F[Len(xs)]
    ELSE IF v.t = "artifact"
    THEN DigestParam(h, ListVal(ArtifactToParams(h, v.n)))
    ELSE <<Str(v)>>

\* The tokens shlex.quote wraps in quotes.
Unsafe(x) == x \in {"", "a b"}

\* shlex.join.
ShlexJoin(xs) ==
    Join([i \in 1..Len(xs) |-> IF Unsafe(xs[i]) THEN "'" \o xs[i] \o "'"
                               ELSE xs[i]], " ")

\* params.digest_env: the result only; env is read, never written.
ParamsDigestEnv(env) ==
    [k \in DOMAIN env |->
        IF env[k].t \in {"list", "set", "tuple"}
        THEN StrVal(ShlexJoin([i \in 1..Len(env[k].items) |->
                                  Str(env[k].items[i])]))
        ELSE env[k]]

EnvKeys == {"A", "B"}

\* util.digest_env walks the keys in order; at an iterable value it
\* stores list(v) back into env and joins v, which raises TypeError when
\* an element is not a str.
RECURSIVE UtilDigestEnv(_, _, _)
UtilDigestEnv(env, out, ks) ==
    IF ks = <<>> THEN [out |-> out, err |-> "none", after |-> env]
    ELSE LET k == Head(ks)
             v == env[k]
             e1 == [env EXCEPT ![k] = ListVal(Items(v))]
         IN  IF IsIterable(v)
             THEN IF \E i \in 1..Len(Items(v)) : Items(v)[i].t # "str"
                  THEN [out |-> out, err |-> "TypeError", after |-> e1]
                  ELSE UtilDigestEnv(e1,
                          [out EXCEPT ![k] =
                              StrVal(Join([i \in 1..Len(Items(v)) |->
                                              Items(v)[i].s], " "))],
                          Tail(ks))
             ELSE UtilDigestEnv(env, [out EXCEPT ![k] = StrVal(Str(v))],
                                Tail(ks))

Scalars == {IntVal(1), StrVal("alpha"), StrVal("a b"), PathVal(1)}

Atoms == Scalars \cup {ArtVal(i) : i \in 1..Len(ParamHeap)}

Lists(S) == {ListVal(xs) : xs \in UNION {[1..n -> S] : n \in 0..MaxArgs}}

\* The arguments of digest_param: a value, a list of values, a list
\* holding a list before or after a string.
ParamValues ==
    Atoms \cup Lists(Atoms)
        \cup {ListVal(<<x, StrVal("alpha")>>) : x \in Lists(Atoms)}
        \cup {ListVal(<<StrVal("alpha"), x>>) : x \in Lists(Atoms)}

EnvValues ==
    {StrVal("value"), IntVal(1), RangeVal(2)}
        \cup Lists({IntVal(1), StrVal("alpha"), StrVal("a b")})

Envs == [EnvKeys -> EnvValues]

CallDigestParam(v) ==
    /\ dig = NoDigest
    /\ dig' = [fn |-> "digest_param", arg |-> v,
               out |-> DigestParam(ParamHeap, v), err |-> "none",
               after |-> v]
    /\ UNCHANGED <<fsVars, resolveVars, probe, shellVars, fanVars,
                   collectVars, resultVars, polyVars, inputVars, purgeVars,
                   cleanVars, bakeVars,
                   liveVars, funcVars, buildVars, facVars>>

CallParamsDigestEnv(env) ==
    /\ dig = NoDigest
    /\ dig' = [fn |-> "params.digest_env", arg |-> env,
               out |-> ParamsDigestEnv(env), err |-> "none", after |-> env]
    /\ UNCHANGED <<fsVars, resolveVars, probe, shellVars, fanVars,
                   collectVars, resultVars, polyVars, inputVars, purgeVars,
                   cleanVars, bakeVars,
                   liveVars, funcVars, buildVars, facVars>>

CallUtilDigestEnv(env) ==
    /\ dig = NoDigest
    /\ LET r == UtilDigestEnv(env, [k \in EnvKeys |-> StrVal("")],
                              <<"A", "B">>)
       IN  dig' = [fn |-> "util.digest_env", arg |-> env, out |-> r.out,
                   err |-> r.err, after |-> r.after]
    /\ UNCHANGED <<fsVars, resolveVars, probe, shellVars, fanVars,
                   collectVars, resultVars, polyVars, inputVars, purgeVars,
                   cleanVars, bakeVars,
                   liveVars, funcVars, buildVars, facVars>>

InitParam ==
    /\ EngineIdle
    /\ ShellIdle
    /\ FanIdle
    /\ UnitsIdle

NextParam ==
    \/ \E v \in ParamValues : CallDigestParam(v)
    \/ \E env \in Envs : CallParamsDigestEnv(env)
    \/ \E env \in Envs : CallUtilDigestEnv(env)

SpecParam == InitParam /\ [][NextParam]_vars

\* One value of a list of values is replaced, where it stands, by what it
\* holds: a list by its items, a Poly artifact by its leaves, a file or
\* value artifact by its path or value, a Null artifact by nothing.
Expanded(h, v) ==
    IF v.t \in {"list", "range"} THEN Items(v)
    ELSE LET a == h[v.n]
         IN  IF a.type = "poly" THEN [k \in 1..Len(a.artifacts) |->
                                         ArtVal(a.artifacts[k])]
             ELSE IF a.type = "file" THEN <<PathVal(a.path)>>
             ELSE IF a.type = "value" THEN <<a.value>>
             ELSE <<>>

RECURSIVE InPlace(_, _)
InPlace(h, xs) ==
    LET open == {i \in 1..Len(xs) : xs[i].t \in {"list", "range", "artifact"}}
    IN  IF open = {} THEN xs
        ELSE LET i == SetMin(open)
             IN  InPlace(h, SubSeq(xs, 1, i - 1) \o Expanded(h, xs[i])
                                \o SubSeq(xs, i + 1, Len(xs)))

\* C27: digest_param returns the string forms of the values left when
\* every list and every artifact of its argument has been expanded in
\* place: the order is kept, a Poly artifact gives its leaves' params in
\* leaf order and a Null artifact gives nothing.
C27_DigestParamFlat ==
    dig.fn = "digest_param" =>
        LET flat == InPlace(ParamHeap, <<dig.arg>>)
        IN  dig.out = [k \in 1..Len(flat) |-> Str(flat[k])]

\* digest_param was given a list that holds a list with the Poly artifact
\* and a scalar after it; the result is the Poly's leaves' paths, last
\* path first, and then the scalars.
C27_Witness ==
    /\ dig.fn = "digest_param"
    /\ dig.arg = ListVal(<<ListVal(<<ArtVal(Len(ParamHeap)), IntVal(1)>>),
                          StrVal("alpha")>>)
    /\ dig.out = [i \in 1..NumPaths |-> Str(PathVal(NumPaths + 1 - i))]
                     \o <<"1", "alpha">>

\* C28: digest_env returns a map with the keys of its argument, an
\* iterable value replaced by its elements' string forms joined by single
\* spaces, any other value kept, and leaves its argument as it was.
C28_DigestEnvJoins ==
    dig.fn \in {"params.digest_env", "util.digest_env"} =>
        /\ dig.err = "none"
        /\ DOMAIN dig.out = DOMAIN dig.arg
        /\ \A k \in DOMAIN dig.arg :
              dig.out[k] =
                  IF IsIterable(dig.arg[k])
                  THEN StrVal(Join([i \in 1..Len(Items(dig.arg[k])) |->
                                       Str(Items(dig.arg[k])[i])], " "))
                  ELSE dig.arg[k]
        /\ dig.after = dig.arg

\* ------------------------- recipes.py: PolyRecipe, SequenceRecipe (seq)
\* The resolved recipe, 1, is a plain recipe ("file"), a PolyRecipe
\* ("poly") or a SequenceRecipe ("seq") whose members are deps[1]; the
\* other recipes are plain.

\* PolyRecipe._calculate_deps: the members and their dependencies.
PolyDependencies(r) == deps[r] \cup UNION {Dependencies(m) : m \in deps[r]}

\* PolyRecipe.is_done.
PolyIsDone(r) == \A m \in deps[r] : IsDone(m)

IsPoly(t) == kind[tasks[t].recipe] \in {"poly", "seq"}

\* The resolve() calls a make() has awaited or is awaiting.
MakeKids(t) == {k \in TaskIds : tasks[k].parent = t /\ k \notin tasks[t].kids}

\* Recipe.resolve of a PolyRecipe up to the gather of resolve_deps, whose
\* direct dependencies are the members.
PolyResolve(t) ==
    /\ tasks[t].pc = "start"
    /\ IsPoly(t)
    /\ LET r == tasks[t].recipe
           todo == SelectSeq(DirectDependencies(r), LAMBDA d : ~IsDone(d))
           n == Len(tasks)
       IN  /\ lock[r] = NoTask
           /\ IF PolyIsDone(r)
              THEN ReturnOk(t)
              ELSE /\ tasks' = [tasks EXCEPT ![t].pc = "gather",
                                   ![t].kids = (n + 1)..(n + Len(todo))]
                               \o [i \in 1..Len(todo) |-> NewTask(todo[i], t)]
                   /\ lock' = [lock EXCEPT ![r] = t]
                   /\ UNCHANGED makeCount
    /\ UNCHANGED notEngine
    /\ UNCHANGED <<deps, kind, debug, now, exists, mtime, lockq>>

\* The gather of resolve_deps is over; then the assertions, then make():
\* PolyRecipe.make gathers resolve() of every member, SequenceRecipe.make
\* awaits resolve() of the first.
PolyGatherDone(t) ==
    /\ tasks[t].pc = "gather"
    /\ IsPoly(t)
    /\ LET r == tasks[t].recipe
           notDone == {d \in PolyDependencies(r) : ~IsDone(d)}
           dd == DirectDependencies(r)
           first == IF kind[r] = "seq" THEN SubSeq(dd, 1, 1) ELSE dd
       IN  \/ /\ tasks[t].gexc
              /\ ExceptHandler(t, tasks[t].gcar)
           \/ /\ ~tasks[t].gexc
              /\ \A k \in tasks[t].kids : tasks[k].pc = "done"
              /\ IF notDone # {}
                 THEN ExceptHandler(t, {SetMin(notDone)})
                 ELSE /\ tasks' = [tasks EXCEPT ![t].pc = "make"]
                                  \o [i \in 1..Len(first) |-> NewTask(first[i], t)]
                      /\ makeCount' = [makeCount EXCEPT ![r] = @ + 1]
                      /\ UNCHANGED lock
    /\ UNCHANGED notEngine
    /\ UNCHANGED <<deps, kind, debug, now, exists, mtime, lockq>>

\* make() goes on when the resolve() it awaits has ended: with its
\* exception, with the next member of a SequenceRecipe, or with the end of
\* make() and assert_is_done.
PolyMakeNext(t) ==
    /\ tasks[t].pc = "make"
    /\ IsPoly(t)
    /\ \A k \in MakeKids(t) : tasks[k].pc = "done"
    /\ LET r == tasks[t].recipe
           dd == DirectDependencies(r)
           n == Cardinality(MakeKids(t))
           bad == {k \in MakeKids(t) : tasks[k].raised}
       IN  IF bad # {}
           THEN ExceptHandler(t, tasks[SetMin(bad)].carries)
           ELSE IF kind[r] = "seq" /\ n < Len(dd)
           THEN /\ tasks' = Append(tasks, NewTask(dd[n + 1], t))
                /\ UNCHANGED <<lock, makeCount>>
           ELSE IF PolyIsDone(r) THEN ReturnOk(t)
           ELSE ExceptHandler(t, {r})
    /\ UNCHANGED notEngine
    /\ UNCHANGED <<deps, kind, debug, now, exists, mtime, lockq>>

InitSeq ==
    /\ UnitsIdle
    /\ ShellIdle
    /\ FanIdle
    /\ probe = NoProbe
    /\ deps \in {GraphDeps(g) : g \in Graphs}
    /\ kind \in [Recipes -> {"file", "poly", "seq"}]
    /\ \A r \in Recipes \ {1} : kind[r] = "file"
    /\ debug \in BOOLEAN
    /\ now = 1
    /\ exists \in [Recipes -> BOOLEAN]
    /\ ~exists[1]
    /\ mtime = [r \in Recipes |-> IF exists[r] THEN 1 ELSE 0]
    /\ lock = [r \in Recipes |-> NoTask]
    /\ lockq = [r \in Recipes |-> <<>>]
    /\ tasks = <<NewTask(1, NoTask)>>
    /\ makeCount = [r \in Recipes |-> 0]

NextSeq ==
    \/ \E t \in TaskIds : PolyResolve(t)
    \/ \E t \in TaskIds : PolyGatherDone(t)
    \/ \E t \in TaskIds : PolyMakeNext(t)
    \/ \E t \in TaskIds : ~IsPoly(t) /\ StartResolve(t)
    \/ \E t \in TaskIds : ~IsPoly(t) /\ AcquireLock(t)
    \/ \E t \in TaskIds : ~IsPoly(t) /\ GatherDone(t)
    \/ \E t \in TaskIds : ~IsPoly(t) /\ MakeWrite(t)
    \/ \E t \in TaskIds : ~IsPoly(t) /\ MakeReturn(t)
    \/ \E t \in TaskIds : ~IsPoly(t) /\ MakeRaise(t)

SpecSeq == InitSeq /\ [][NextSeq]_vars

\* The resolve() calls for recipe r that have not returned.
Unreturned(r) == {t \in TaskIds : tasks[t].recipe = r /\ tasks[t].pc # "done"}

\* C29: the members of a resolved SequenceRecipe are resolved one at a
\* time in list order: while the work of a member runs, the resolve of
\* every member before it has returned and no other member's work runs.
C29_MembersOneAtATime ==
    kind[1] = "seq" =>
        \A t \in TaskIds :
            (tasks[t].recipe \in deps[1] /\ tasks[t].pc = "make") =>
                /\ \A i \in deps[1] :
                      i < tasks[t].recipe => Unreturned(i) = {}
                /\ \A u \in TaskIds \ {t} :
                      tasks[u].recipe \in deps[1] => tasks[u].pc # "make"

\* The recipes r depends on, directly or not.
Reach(r) == ClosureFrom(Dependencies(r), NumRecipes)

\* The recipes whose locks are held by the calls that await call u.
RECURSIVE HeldAbove(_)
HeldAbove(u) ==
    LET p == tasks[u].parent
    IN  IF p = NoTask THEN {}
        ELSE (IF lock[tasks[p].recipe] = p THEN {tasks[p].recipe} ELSE {})
                 \cup HeldAbove(p)

\* Lock R waits for lock D: a call below the holder of R is queued on D.
WaitsFor ==
    {e \in Recipes \X Recipes :
        \E u \in TaskIds : /\ tasks[u].pc = "waitlock"
                           /\ tasks[u].recipe = e[2]
                           /\ e[1] \in HeldAbove(u)}

\* The waits form a cycle: a set of locks each of which waits for one of
\* the set.
WaitCycle ==
    LET W == WaitsFor
    IN  \E S \in SUBSET Recipes :
            S # {} /\ \A r \in S : \E d \in S : <<r, d>> \in W

\* C30: a lock that is acquired or waited for while the lock of R is held
\* by a call above belongs to a recipe R depends on, and the locks never
\* wait for each other in a cycle.
C30_LocksGoDownward ==
    /\ \A u \in TaskIds :
          (tasks[u].pc = "waitlock" \/ lock[tasks[u].recipe] = u) =>
              \A R \in HeldAbove(u) : tasks[u].recipe \in Reach(R)
    /\ ~WaitCycle

\* A call queues on the lock of a recipe that a call of another branch
\* holds, while two calls above it hold their locks.
C30_Witness ==
    \E u \in TaskIds :
        /\ tasks[u].pc = "waitlock"
        /\ lock[tasks[u].recipe] # NoTask
        /\ Cardinality(HeldAbove(u)) >= 2

\* C32: a resolve of a file-output shell recipe that succeeded before and
\* wrote its output, and is not done any more because a dependency's output
\* is newer, runs the command again.
C32_StaleSuccessRunsAgain ==
    [][\A s \in Shells :
          (/\ kind[s] = "file"
           /\ returncode[s] \in SuccessCodes
           /\ exists[s]
           /\ ~ShellIsDoneRead(s, now, now)
           /\ \A d \in Dependencies(s) : IsDone(d)
           /\ ResolveCall(s))
              => acquired'[s] = acquired[s] + 1]_vars

\* ------------- recipes.py, shell.py: resolve of shell recipes, to its end
\* Every recipe is a ShellRecipe with a file output; its make() takes a
\* slot of the limiter for the time its subprocess runs.

\* A finally that keeps the slot.
NoRelease(l, r) == l

\* "finally: self._limiter.release()".
Release(l, r) == [l EXCEPT ![r].st = "over"]

\* _limiter._value: the free slots.
FreeSlots == LimiterSize - Cardinality({r \in Recipes : lim[r].st = "held"})

\* The make() that task t is in has not reached "try:" yet.
Fresh(t) ==
    /\ tasks[t].pc = "make"
    /\ lim[tasks[t].recipe].n # makeCount[tasks[t].recipe]

notLive ==
    <<fsVars, resolveVars, probe, shellVars, fanVars, collectVars, resultVars,
      polyVars, inputVars, purgeVars, cleanVars, bakeVars, paramVars,
      funcVars,
      buildVars,
      facVars>>

\* make() with no return code stored: "await self._limiter.acquire()"
\* returns at once when a slot is free, else the task waits.
LimiterAcquire(t) ==
    /\ Fresh(t)
    /\ lim[tasks[t].recipe].rc = None
    /\ lim' = [lim EXCEPT ![tasks[t].recipe].n = makeCount[tasks[t].recipe],
                          ![tasks[t].recipe].st =
                              IF FreeSlots > 0 THEN "held" ELSE "waiting"]
    /\ UNCHANGED notLive

\* A released slot wakes a waiting make().
SlotGranted(t) ==
    /\ tasks[t].pc = "make"
    /\ lim[tasks[t].recipe].st = "waiting"
    /\ FreeSlots > 0
    /\ lim' = [lim EXCEPT ![tasks[t].recipe].st = "held"]
    /\ UNCHANGED notLive

\* The subprocess ends with return code rc, which is stored, or the spawn
\* or the collection raised (rc None); the finally clause runs.
WorkEnds(t, rc) ==
    /\ tasks[t].pc = "make"
    /\ lim[tasks[t].recipe].st = "held"
    /\ lim' = Release([lim EXCEPT ![tasks[t].recipe].rc = rc],
                      tasks[t].recipe)
    /\ UNCHANGED notLive

\* The subprocess of the make() that task t is in runs.
Working(t) == tasks[t].pc = "make" /\ lim[tasks[t].recipe].st = "held"

\* make() returns: a success code is stored, by this make() or before it.
Returns(t) ==
    /\ tasks[t].pc = "make"
    /\ lim[tasks[t].recipe].rc \in SuccessCodes
    /\ ~Fresh(t) => lim[tasks[t].recipe].st = "over"

\* make() raises: "failed previously", the command failed, or the spawn
\* or the collection raised.
Raises(t) ==
    /\ tasks[t].pc = "make"
    /\ lim[tasks[t].recipe].rc \notin SuccessCodes
    /\ IF Fresh(t) THEN lim[tasks[t].recipe].rc # None
       ELSE lim[tasks[t].recipe].st = "over"

InitLive ==
    /\ FactoryIdle
    /\ BuildIdle
    /\ FuncIdle
    /\ CollectIdle /\ rop = NoOp /\ heap = <<>> /\ InputIdle /\ PurgeIdle
    /\ CleanIdle /\ BakeIdle /\ ParamIdle /\ LiveIdle
    /\ ShellIdle
    /\ FanIdle
    /\ probe = NoProbe
    /\ deps \in {GraphDeps(g) : g \in Graphs}
    /\ kind = [r \in Recipes |-> "file"]
    /\ debug \in BOOLEAN
    /\ now = 1
    /\ exists = [r \in Recipes |-> FALSE]
    /\ mtime = [r \in Recipes |-> 0]
    /\ lock = [r \in Recipes |-> NoTask]
    /\ lockq = [r \in Recipes |-> <<>>]
    /\ tasks = <<NewTask(1, NoTask)>>
    /\ makeCount = [r \in Recipes |-> 0]

NextLive ==
    \/ \E t \in TaskIds : StartResolve(t)
    \/ \E t \in TaskIds : AcquireLock(t)
    \/ \E t \in TaskIds : GatherDone(t)
    \/ \E t \in TaskIds : LimiterAcquire(t)
    \/ \E t \in TaskIds : SlotGranted(t)
    \/ \E t \in TaskIds : Working(t) /\ MakeWrite(t)
    \/ \E t \in TaskIds, rc \in ExitCodes \cup {None} : WorkEnds(t, rc)
    \/ \E t \in TaskIds : Returns(t) /\ MakeReturn(t)
    \/ \E t \in TaskIds : Raises(t) /\ MakeRaise(t)

\* The event loop runs every task that can run, and the subprocesses end.
LiveFairness ==
    /\ WF_vars(\E t \in TaskIds : StartResolve(t))
    /\ WF_vars(\E t \in TaskIds : AcquireLock(t))
    /\ WF_vars(\E t \in TaskIds : GatherDone(t))
    /\ WF_vars(\E t \in TaskIds : LimiterAcquire(t))
    /\ SF_vars(\E t \in TaskIds : SlotGranted(t))
    /\ WF_vars(\E t \in TaskIds, rc \in ExitCodes \cup {None} : WorkEnds(t, rc))
    /\ WF_vars(\E t \in TaskIds : Returns(t) /\ MakeReturn(t))
    /\ WF_vars(\E t \in TaskIds : Raises(t) /\ MakeRaise(t))

SpecLive == InitLive /\ [][NextLive]_vars /\ LiveFairness

NumFuncs == 2
\* The most keyword arguments of one FunctionalRecipe.
MaxKwargs == 1

FuncRecipes == 1..NumFuncs

\* An argument: a recipe (its number) or a plain value.
RecipeArg(r) == [rec |-> TRUE, v |-> r]
PlainArg(n) == [rec |-> FALSE, v |-> n]
ArgValues == {RecipeArg(r) : r \in FuncRecipes} \cup {PlainArg(1)}

\* recipe.output.value of a FunctionalRecipe that is done.
OutputValue(r) == PlainArg(10 + r)

\* The places of a list of arguments that hold a recipe, in order.
RecipePlaces(as) ==
    SelectSeq([i \in 1..Len(as) |-> i], LAMBDA i : as[i].rec)

\* _scan_args, what it leaves in self._lazy_params.
LazyParams(args, kwargs) ==
    [j \in 1..Len(RecipePlaces(args)) |->
        [kw |-> FALSE, pos |-> RecipePlaces(args)[j],
         recipe |-> args[RecipePlaces(args)[j]].v]]
    \o [j \in 1..Len(RecipePlaces(kwargs)) |->
        [kw |-> TRUE, pos |-> RecipePlaces(kwargs)[j],
         recipe |-> kwargs[RecipePlaces(kwargs)[j]].v]]

\* _scan_args raises: the second loop appends "arg", the variable of the
\* first loop, which is not bound when there is no positional argument.
ScanArgsRaises(args, kwargs) ==
    Len(args) = 0 /\ RecipePlaces(kwargs) # <<>>

\* _scan_args, what it returns: the positional recipes, then, for each
\* keyword recipe, "arg": the last positional argument.
ScanArgs(args, kwargs) ==
    [j \in 1..Len(RecipePlaces(args)) |-> args[RecipePlaces(args)[j]]]
    \o [j \in 1..Len(RecipePlaces(kwargs)) |-> args[Len(args)]]

\* LazyRecipeParam.interpolate of every lazy parameter, on one of the two
\* collections of arguments.
Interpolate(lazy, as, kw) ==
    [x \in 1..Len(as) |->
        IF \E j \in 1..Len(lazy) : lazy[j].kw = kw /\ lazy[j].pos = x
        THEN OutputValue(
                 (CHOOSE l \in {lazy[j] : j \in 1..Len(lazy)} :
                      l.kw = kw /\ l.pos = x).recipe)
        ELSE as[x]]

notFunc ==
    <<fsVars, resolveVars, probe, shellVars, fanVars, collectVars, resultVars,
      polyVars, inputVars, purgeVars, cleanVars, bakeVars, paramVars,
      liveVars,
      buildVars,
      facVars>>

\* FunctionalRecipe(f, *args, **kwargs).
FuncNew(args, kwargs) ==
    /\ fr.st = "none"
    /\ fr' = [fr EXCEPT
                !.st = IF ScanArgsRaises(args, kwargs) THEN "unbound"
                       ELSE "built",
                !.args = args,
                !.kwargs = kwargs,
                !.lazy = IF ScanArgsRaises(args, kwargs) THEN <<>>
                         ELSE LazyParams(args, kwargs),
                !.deps = IF ScanArgsRaises(args, kwargs) THEN <<>>
                         ELSE ScanArgs(args, kwargs)]
    /\ UNCHANGED notFunc

\* Another caller has resolved recipe r, which is done from then on.
ArgResolved(r) ==
    /\ fr.st \in {"none", "built"}
    /\ r \notin fr.done
    /\ fr' = [fr EXCEPT !.done = @ \cup {r}]
    /\ UNCHANGED notFunc

\* The recipes resolve_deps resolves: the dependencies that are not done.
ToResolve == {fr.deps[i].v : i \in 1..Len(fr.deps)} \ fr.done

\* await resolve() of the FunctionalRecipe, to its end; ok holds the
\* recipes whose function returns when they are resolved.
\*   - sorted(self._deps, key=x.name) raises on a dependency that is no
\*     recipe;
\*   - assert_is_done raises on a dependency that failed;
\*   - interpolate raises on a recipe that is not done, whose output is a
\*     NullArtifact, which has no value.
FuncResolve(ok) ==
    /\ fr.st = "built"
    /\ IF \E i \in 1..Len(fr.deps) : ~fr.deps[i].rec
       THEN fr' = [fr EXCEPT !.st = "failed"]
       ELSE LET done == fr.done \cup (ToResolve \cap ok)
            IN  IF ToResolve \ ok # {}
                   \/ \E j \in 1..Len(fr.lazy) : fr.lazy[j].recipe \notin done
                THEN fr' = [fr EXCEPT !.st = "failed", !.done = done]
                ELSE fr' = [fr EXCEPT
                               !.st = "called",
                               !.done = done,
                               !.cargs = Interpolate(fr.lazy, fr.args, FALSE),
                               !.ckwargs =
                                   Interpolate(fr.lazy, fr.kwargs, TRUE)]
    /\ UNCHANGED notFunc

ArgsUpTo(S, n) == UNION {[1..k -> S] : k \in 0..n}

InitFunc ==
    /\ EngineIdle
    /\ ShellIdle
    /\ FanIdle
    /\ UnitsIdle

NextFunc ==
    \/ \E args \in ArgsUpTo(ArgValues, MaxArgs),
          kwargs \in ArgsUpTo(ArgValues, MaxKwargs) : FuncNew(args, kwargs)
    \/ \E r \in FuncRecipes : ArgResolved(r)
    \/ \E ok \in SUBSET FuncRecipes : FuncResolve(ok)

SpecFunc == InitFunc /\ [][NextFunc]_vars

\* The recipes among a list of arguments.
RecipesIn(as) == {as[i].v : i \in {i \in 1..Len(as) : as[i].rec}}

\* C33: every recipe passed to a FunctionalRecipe, by position or by
\* keyword, is one of its dependencies; when the function has been called,
\* every one of them is done and stands replaced by its output value in its
\* place.
C33_RecipeArgsAreResolvedDependencies ==
    /\ fr.st # "unbound"
    /\ fr.st # "none" =>
          RecipesIn(fr.args) \cup RecipesIn(fr.kwargs)
              \subseteq {fr.deps[i].v : i \in {j \in 1..Len(fr.deps) :
                                                  fr.deps[j].rec}}
    /\ fr.st = "called" =>
          /\ RecipesIn(fr.args) \cup RecipesIn(fr.kwargs) \subseteq fr.done
          /\ \A x \in 1..Len(fr.args) :
                fr.cargs[x] = IF fr.args[x].rec
                              THEN OutputValue(fr.args[x].v) ELSE fr.args[x]
          /\ \A x \in 1..Len(fr.kwargs) :
                fr.ckwargs[x] = IF fr.kwargs[x].rec
                                THEN OutputValue(fr.kwargs[x].v)
                                ELSE fr.kwargs[x]

\* ------------- build.py: the temporary artifacts at the end of a build
\* The list gather returns, as the one object it is.
ListValue(values) == [isexc |-> FALSE, from |-> 0, tag |-> 2, items |-> values]

\* _cleanup_temps: gather has finished; its list is handed to aggregate
\* as one argument, "aggregate(await asyncio.gather(...))".
CleanupTempsDone ==
    /\ fpc = "gather"
    /\ GatherComplete(branches)
    /\ fres' = Aggregate(<<ListValue(Gathered(branches))>>)
    /\ fpc' = "done"
    /\ UNCHANGED <<fanKind, branches>>
    /\ UNCHANGED notFan

\* _cleanup_temps is called with n recipes in self._temps.
InitTemps ==
    /\ UnitsIdle
    /\ EngineIdle
    /\ ShellIdle
    /\ fanKind = "cleanup_temps"
    /\ branches = <<>>
    /\ fpc = "idle"
    /\ fres = NoResult

NextTemps ==
    \/ \E n \in 0..MaxBranches : FanCall(n)
    \/ \E i \in BranchIds : BranchStart(i)
    \/ \E i \in BranchIds : BranchReturns(i)
    \/ \E i \in BranchIds : BranchRaises(i)
    \/ CleanupTempsDone

SpecTemps == InitTemps /\ [][NextTemps]_vars

\* C34: when _cleanup_temps has ended, the clean() of every temporary
\* artifact has run to its end, and if any of them raised, _cleanup_temps
\* raised one AggregateError whose errors are all the exceptions raised.
C34_TempFailuresAreAggregated ==
    fpc = "done" =>
        /\ GatherComplete(branches)
        /\ (\E i \in BranchIds : branches[i].raised) =>
              /\ fres.raised
              /\ fres.errors = SelectSeq(Gathered(branches), IsException)

\* ------------- build.py: BuildEngine, the resources of one invocation
\* Resource n takes every resource of a higher number as a parameter; the
\* first NumTargets resources are tagged as targets.
MaxRequests == 3

\* The parameters of a resource's provider.
Params(n) == {k \in ResourceNames : k > n}

\* self._injector.get_ordered_dependencies(name): parameters first.
OrderedDependencies(n) ==
    [k \in 1..(NumResources - n) |-> NumResources + 1 - k]

\* "resources = [t for t in resources if t not in keepers]".
WithoutKeepers(rs, keepers) == SelectSeq(rs, LAMBDA t : t \notin keepers)

\* _resolve_build: the resources to resolve for target t (0: none given),
\* default target d (0: none), --clean c and --clean-all ca.
Resources(t, c, ca, keepers) ==
    LET all == IF ca THEN SortedSeq(GetTargets)
               ELSE IF ~c THEN Append(OrderedDependencies(t), t)
               ELSE <<t>>
    IN  IF c \/ ca THEN WithoutKeepers(all, keepers) ELSE all

\* A cache that is never read.
NoCacheHit(n) == FALSE

\* "if name in self._cache and not Recipe.cleaning".
CacheHit(n) == rcache[n] # 0 /\ ~cfg.cleaning

Request(n, tg, pc) ==
    [name |-> n, targeted |-> tg, pc |-> pc, prov |-> FALSE, ret |-> 0,
     raised |-> FALSE]

\* The body under "async with self._cache_locks[name]", up to its first
\* await: the cached value is returned, or the provider is called.
UnderCacheLock(r) ==
    IF CacheHit(r.name)
    THEN [r EXCEPT !.pc = "done", !.ret = rcache[r.name]]
    ELSE [r EXCEPT !.pc = "provide", !.prov = TRUE]

notBuild ==
    <<fsVars, resolveVars, probe, shellVars, fanVars, collectVars, resultVars,
      polyVars, inputVars, purgeVars, cleanVars, bakeVars, paramVars,
      liveVars, funcVars,
      facVars>>

\* _resolve_resource(name, targeted=tg) is called: the lock is taken at
\* once when it is free and nobody waits, else the call queues.
ResolveResource(n, tg) ==
    LET i == Len(reqs) + 1
    IN  IF rlock[n] = 0 /\ rlockq[n] = <<>>
        THEN /\ reqs' = Append(reqs, UnderCacheLock(Request(n, tg, "start")))
             /\ rlock' = IF CacheHit(n) THEN rlock
                         ELSE [rlock EXCEPT ![n] = i]
             /\ UNCHANGED rlockq
        ELSE /\ reqs' = Append(reqs, Request(n, tg, "wait"))
             /\ rlockq' = [rlockq EXCEPT ![n] = Append(@, i)]
             /\ UNCHANGED rlock

\* __call__, _resolve_build up to the choice of the resources.
ResolveBuild(t, d, c, ca) ==
    /\ cfg.st = "idle"
    /\ LET target == IF t # 0 THEN t ELSE d
       IN  IF target = 0 \/ ~IsTarget(target)
           THEN cfg' = [cfg EXCEPT !.st = "raised", !.cleaning = c \/ ca,
                                   !.cleanAll = ca, !.target = target]
           ELSE cfg' = [cfg EXCEPT
                           !.st = "running", !.cleaning = c \/ ca,
                           !.cleanAll = ca, !.target = target,
                           !.resources =
                               Resources(target, c, ca, cfg.keepers)]
    /\ UNCHANGED <<rcache, rlock, rlockq, reqs>>
    /\ UNCHANGED notBuild

\* The requests of _resolve_build, made one after the other.
TopLevel == {i \in 1..Len(reqs) : reqs[i].targeted}

\* run_until_complete(self._resolve_resource(resource, targeted=True)) for
\* the next resource.
ResolveBuildNext ==
    /\ cfg.st = "running"
    /\ \A i \in TopLevel : reqs[i].pc = "done" /\ ~reqs[i].raised
    /\ cfg.next <= Len(cfg.resources)
    /\ Len(reqs) < MaxRequests
    /\ ResolveResource(cfg.resources[cfg.next], TRUE)
    /\ cfg' = [cfg EXCEPT !.next = @ + 1]
    /\ UNCHANGED rcache
    /\ UNCHANGED notBuild

\* run_until_complete raises what the request raised.
ResolveBuildRaises ==
    /\ cfg.st = "running"
    /\ \E i \in TopLevel : reqs[i].pc = "done" /\ reqs[i].raised
    /\ cfg' = [cfg EXCEPT !.st = "raised"]
    /\ UNCHANGED <<rcache, rlock, rlockq, reqs>>
    /\ UNCHANGED notBuild

\* Every resource is resolved: _resolve_build returns.
ResolveBuildEnds ==
    /\ cfg.st = "running"
    /\ \A i \in TopLevel : reqs[i].pc = "done" /\ ~reqs[i].raised
    /\ cfg.next > Len(cfg.resources)
    /\ cfg' = [cfg EXCEPT !.st = "done"]
    /\ UNCHANGED <<rcache, rlock, rlockq, reqs>>
    /\ UNCHANGED notBuild

\* _intercept_coroutines: the provider of a resource asks for its
\* parameter n.
InterceptCoroutines(n) ==
    /\ cfg.st = "running"
    /\ Len(reqs) < MaxRequests
    /\ \E i \in 1..Len(reqs) : reqs[i].pc = "provide" /\ n \in Params(reqs[i].name)
    /\ ResolveResource(n, FALSE)
    /\ UNCHANGED <<cfg, rcache>>
    /\ UNCHANGED notBuild

\* The first waiter is woken once the lock is released.
CacheLockGranted(i) ==
    /\ reqs[i].pc = "wait"
    /\ rlock[reqs[i].name] = 0
    /\ Head(rlockq[reqs[i].name]) = i
    /\ rlockq' = [rlockq EXCEPT ![reqs[i].name] = Tail(@)]
    /\ reqs' = [reqs EXCEPT ![i] = UnderCacheLock(@)]
    /\ rlock' = IF CacheHit(reqs[i].name) THEN rlock
                ELSE [rlock EXCEPT ![reqs[i].name] = i]
    /\ UNCHANGED <<cfg, rcache>>
    /\ UNCHANGED notBuild

\* "await self._injector.require_async(name)" returns the provided value.
RequireReturns(i) ==
    /\ reqs[i].pc = "provide"
    /\ reqs' = [reqs EXCEPT ![i].pc = "resolve"]
    /\ UNCHANGED <<cfg, rcache, rlock, rlockq>>
    /\ UNCHANGED notBuild

\* "final_value = self._cache[name] = await self._deep_resolve(...)" and
\* the return.
DeepResolveReturns(i) ==
    /\ reqs[i].pc = "resolve"
    /\ rcache' = [rcache EXCEPT ![reqs[i].name] = i]
    /\ reqs' = [reqs EXCEPT ![i].pc = "done", ![i].ret = i]
    /\ rlock' = [rlock EXCEPT ![reqs[i].name] = 0]
    /\ UNCHANGED <<cfg, rlockq>>
    /\ UNCHANGED notBuild

\* The provider or _deep_resolve raises: nothing is cached, the lock is
\* released and the exception goes to the caller.
ResourceRaises(i) ==
    /\ reqs[i].pc \in {"provide", "resolve"}
    /\ reqs' = [reqs EXCEPT ![i].pc = "done", ![i].raised = TRUE]
    /\ rlock' = [rlock EXCEPT ![reqs[i].name] = 0]
    /\ UNCHANGED <<cfg, rcache, rlockq>>
    /\ UNCHANGED notBuild

InitBuild ==
    /\ FactoryIdle
    /\ EngineIdle
    /\ ShellIdle
    /\ FanIdle
    /\ CollectIdle /\ rop = NoOp /\ heap = <<>> /\ InputIdle /\ PurgeIdle
    /\ CleanIdle /\ BakeIdle /\ ParamIdle /\ LiveIdle /\ FuncIdle
    /\ \E K \in SUBSET ResourceNames :
          /\ Cardinality(K) <= 1
          /\ cfg = [NoConfig EXCEPT !.keepers = K]
    /\ rcache = [n \in ResourceNames |-> 0]
    /\ rlock = [n \in ResourceNames |-> 0]
    /\ rlockq = [n \in ResourceNames |-> <<>>]
    /\ reqs = <<>>

NextBuild ==
    \/ \E t \in 0..NumResources, d \in Defaults, c, ca \in BOOLEAN :
          ResolveBuild(t, d, c, ca)
    \/ ResolveBuildNext
    \/ ResolveBuildRaises
    \/ ResolveBuildEnds
    \/ \E n \in ResourceNames : InterceptCoroutines(n)
    \/ \E i \in 1..Len(reqs) : CacheLockGranted(i)
    \/ \E i \in 1..Len(reqs) : RequireReturns(i)
    \/ \E i \in 1..Len(reqs) : DeepResolveReturns(i)
    \/ \E i \in 1..Len(reqs) : ResourceRaises(i)

SpecBuild == InitBuild /\ [][NextBuild]_vars

\* C35: a cleaning run skips a keeper reached through --clean-all and
\* resolves, so cleans, a keeper that is itself the requested target.
C35_KeeperCleanedOnlyAsTarget ==
    (cfg.st = "running" /\ cfg.cleaning) =>
        \A k \in cfg.keepers :
            (\E j \in 1..Len(cfg.resources) : cfg.resources[j] = k)
                <=> (~cfg.cleanAll /\ k = cfg.target)

\* The requests for resource n that called its provider.
ProvidedFor(n) == {i \in 1..Len(reqs) : reqs[i].name = n /\ reqs[i].prov}

\* C36: in build mode the provider of each resource is called, and its
\* value deep-resolved, by at most one request of the invocation, and every
\* other request for the name returns the value that request cached; at
\* most one request at a time is under a name's lock; in cleaning mode no
\* request returns a cached value.
C36_ProvidedOncePerInvocation ==
    /\ \A n \in ResourceNames :
          Cardinality({i \in 1..Len(reqs) :
              reqs[i].name = n /\ reqs[i].pc \in {"provide", "resolve"}}) <= 1
    /\ ~cfg.cleaning =>
          /\ \A n \in ResourceNames : Cardinality(ProvidedFor(n)) <= 1
          /\ \A i \in 1..Len(reqs) :
                (reqs[i].pc = "done" /\ ~reqs[i].raised) =>
                    /\ reqs[i].ret \in ProvidedFor(reqs[i].name)
                    /\ reqs[i].ret = rcache[reqs[i].name]
    /\ cfg.cleaning =>
          \A i \in 1..Len(reqs) :
              (reqs[i].pc = "done" /\ ~reqs[i].raised) => reqs[i].ret = i

\* In build mode a provider asked for a parameter that a request of
\* _resolve_build had resolved, and got the value that request cached.
C36_Witness ==
    /\ ~cfg.cleaning
    /\ \E i, j \in 1..Len(reqs) :
          /\ i < j
          /\ reqs[j].name = reqs[i].name
          /\ reqs[i].targeted /\ ~reqs[j].targeted
          /\ reqs[j].pc = "done" /\ reqs[j].ret = i

\* ------------- shell.py: ShellFactory and the success codes
\* The return codes of a command.
Codes == 0..MaxCode

\* "success_codes: Set[int] = {0}", the default of ShellRecipe.__init__.
DefaultSuccessCodes == {0}

notFactory ==
    <<fsVars, resolveVars, probe, shellVars, fanVars, collectVars, resultVars,
      polyVars, inputVars, purgeVars, cleanVars, bakeVars, paramVars,
      liveVars, funcVars, buildVars>>

\* ShellRecipe(cmd, ..., success_codes=asked), or the same of
\* InteractiveShellRecipe, which hands its arguments on.
ShellRecipeInit(asked, inter) ==
    /\ fac.st = "none"
    /\ fac' = [fac EXCEPT !.st = "built", !.via = "class", !.asked = asked,
                          !.interactive = inter, !.codes = asked]
    /\ UNCHANGED notFactory

\* sh(cmd, ..., interactive=inter, success_codes=asked): the keyword is
\* none of the named parameters of __call__, lands in **kwargs, which only
\* formats the command, and cls(...) is called without it.
ShellFactoryCall(asked, inter) ==
    /\ fac.st = "none"
    /\ fac' = [fac EXCEPT !.st = "built", !.via = "factory", !.asked = asked,
                          !.interactive = inter,
                          !.codes = DefaultSuccessCodes]
    /\ UNCHANGED notFactory

\* make(): the command ends with return code rc, and make raises
\* "ShellCommand has failed" when rc is not in self._success_codes.
FactoryRecipeMake(rc) ==
    /\ fac.st = "built"
    /\ fac' = [fac EXCEPT !.st = "made", !.rc = rc, !.ok = rc \in fac.codes]
    /\ UNCHANGED notFactory

InitFactory ==
    /\ EngineIdle
    /\ ShellIdle
    /\ FanIdle
    /\ UnitsIdle

NextFactory ==
    \/ \E asked \in SUBSET Codes, inter \in BOOLEAN :
          ShellRecipeInit(asked, inter)
    \/ \E asked \in SUBSET Codes, inter \in BOOLEAN :
          ShellFactoryCall(asked, inter)
    \/ \E rc \in Codes : FactoryRecipeMake(rc)

SpecFactory == InitFactory /\ [][NextFactory]_vars

\* C37: a shell recipe made by the factory with a set of success codes
\* succeeds exactly when its command's return code is in that set.
C37_FactorySuccessCodes ==
    (fac.st = "made" /\ fac.via = "factory") => (fac.ok <=> fac.rc \in fac.asked)

\* ------------- shell.py, recipes.py: resolve of an interactive recipe
\* kind[s] = "file": an output path was given to the constructor, which
\* ShellResult keeps as its file; InteractiveShellRecipe.output is a
\* NullArtifact all the same.

\* ShellRecipe.is_done of an interactive recipe: with no file in the
\* result the return code decides; with one, Recipe.is_done, whose
\* self.output.exists is that of a NullArtifact.
InteractiveIsDone(s, rc) ==
    IF kind[s] = "null" THEN rc # None /\ rc \in SuccessCodes ELSE FALSE

\* InteractiveShellRecipe.make from its call to its end: subprocess.call
\* runs the command, which ends with `code`; the setter takes the code or
\* raises; a code that is no success code raises.
InteractiveMakeToEnd(s, code) ==
    LET g == Setter(returncode[s], code)
    IN  /\ makes' = [makes EXCEPT ![s] = @ + 1]
        /\ returncode' = [returncode EXCEPT ![s] = g.stored]
        /\ mres' = [mres EXCEPT ![s] =
                       IF g.raised \/ g.stored \notin SuccessCodes
                       THEN "raised" ELSE "ok"]
        /\ merr' = [merr EXCEPT ![s] =
                       IF g.raised THEN OtherError("ValueError")
                       ELSE IF g.stored \notin SuccessCodes
                       THEN ShellCommandFailed(g.stored)
                       ELSE NoError]

\* await recipe.resolve() of an interactive recipe with no dependencies,
\* to its end: is_done, make, assert_is_done; what is raised goes to the
\* caller when config.debug is set.
InteractiveResolve(s, code) ==
    /\ Len(tasks) < MaxMakes
    /\ built[s] = "built"
    /\ IF InteractiveIsDone(s, returncode[s])
       THEN /\ tasks' = Append(tasks, Resolved(s))
            /\ UNCHANGED <<makes, mres, merr, returncode>>
       ELSE /\ InteractiveMakeToEnd(s, code)
            /\ tasks' = Append(tasks,
                   [Resolved(s) EXCEPT !.raised =
                       debug /\ (\/ Setter(returncode[s], code).raised
                                 \/ ~InteractiveIsDone(s,
                                       Setter(returncode[s], code).stored))])
    /\ UNCHANGED <<fsVars, lock, lockq, makeCount, probe, built, interactive,
                   toStdin, readsStdin, stdin, limiter, spc, cur, orphans,
                   exitcode, blocked, acquired, released, fanVars, unitVars>>

\* sh(cmd, interactive=True, output=...) for each shell recipe.
InitInteractive ==
    /\ UnitsIdle
    /\ FanIdle
    /\ probe = NoProbe
    /\ deps = [r \in Recipes |-> {}]
    /\ kind \in [Recipes -> {"file", "null"}]
    /\ \A r \in Recipes \ Shells : kind[r] = "null"
    /\ debug \in BOOLEAN
    /\ now = 1
    /\ exists = [r \in Recipes |-> FALSE]
    /\ mtime = [r \in Recipes |-> 0]
    /\ lock = [r \in Recipes |-> NoTask]
    /\ lockq = [r \in Recipes |-> <<>>]
    /\ tasks = <<>>
    /\ makeCount = [r \in Recipes |-> 0]
    /\ built = [s \in Shells |-> "built"]
    /\ interactive = [s \in Shells |-> TRUE]
    /\ toStdin = [s \in Shells |-> FALSE]
    /\ readsStdin = [s \in Shells |-> FALSE]
    /\ stdin = [s \in Shells |-> "none"]
    /\ limiter = LimiterSize
    /\ spc = [s \in Shells |-> "idle"]
    /\ cur = [s \in Shells |-> "none"]
    /\ orphans = 0
    /\ returncode = [s \in Shells |-> None]
    /\ exitcode = [s \in Shells |-> None]
    /\ makes = [s \in Shells |-> 0]
    /\ mres = [s \in Shells |-> "none"]
    /\ merr = [s \in Shells |-> NoError]
    /\ blocked = 0
    /\ acquired = [s \in Shells |-> 0]
    /\ released = [s \in Shells |-> 0]

NextInteractive ==
    \E s \in Shells, code \in ExitCodes : InteractiveResolve(s, code)

SpecInteractive == InitInteractive /\ [][NextInteractive]_vars

\* C39: whatever resolve calls are made on an interactive shell recipe, no
\* make of it ends with the setter's "Return code has already been set",
\* and once its command has returned a success code the recipe is done,
\* with or without an output path.
C39_InteractiveReturncodeOnce ==
    \A s \in Shells :
        /\ merr[s] # OtherError("ValueError")
        /\ (returncode[s] # None /\ returncode[s] \in SuccessCodes) =>
              InteractiveIsDone(s, returncode[s])

====
